---- MODULE Spec2Model ----
(***************************************************************************)
(* A model of the rpm package codec: the tagged-header codec (Tag, Header, *)
(* Reader), the Lead record and the framing routine WriteHeaders.          *)
(*                                                                         *)
(* Bytes are integers 0..255 and byte streams are sequences of them.       *)
(* A Go string is the sequence of its bytes.  32-bit header fields are     *)
(* written and read big-endian as the code does (encoding/binary).         *)
(***************************************************************************)
EXTENDS Integers, Sequences, FiniteSets, TLC

VARIABLES
    hdr,      \* the Header under construction (Tags, off, region, preamble)
    pc,       \* position of the driver: "build", "written", "read", "json", ...
    out,      \* the bytes the sink has received
    wn,       \* the byte count the last WriteTo / WriteHeaders returned
    werr,     \* the error the last WriteTo / WriteHeaders returned
    whdr,     \* the header as it was when WriteTo was called
    have,     \* the Header returned by the last Reader.Next or json decode
    rerr,     \* the error the last Reader call returned
    rd,       \* the Reader: [r |-> unread bytes, off |-> running offset]
    js,       \* the JSON document produced by Header.MarshalJSON
    lead,     \* the Lead being written
    lhave,    \* the Lead returned by Reader.Lead (<<>> is nil)
    parts,    \* the headers handed to WriteHeaders after the lead
    marks,    \* WriteHeaders: for each part, <<sink length before, padding, after>>
    hlist,    \* the headers Reader.Next returned, in order
    b1,       \* hdrEq: the serializations of the headers written
    b2,       \* hdrEq: the serializations of the headers read back
    craft,    \* a hand-made header: [Count, Length, tags, data]
    cw,       \* the scpio Writer: [off |-> running offset, w |-> bytes of the sink]
    clog,     \* the calls made on the scpio Writer, with the offsets they saw
    crecs,    \* the records written: a sequence of [ino, data]
    cr,       \* the scpio Reader: [r |-> unread bytes, off |-> running offset]
    cgot,     \* the outcomes of the scpio Reader: a sequence of [ino, err, data]
    pm,       \* a prefixMap: [s |-> directory names, m |-> directory -> index]
    plog,     \* the calls of prefixMap.index: a sequence of [file, name, idx]
    fi,       \* a FileIndex
    fadded,   \* the Files added to fi, in order
    fidx,     \* the outcome of FileIndexHeader: [idx, err]
    fdump,    \* the outcomes of Dump on fi and on the ingested index
    hedits,   \* the changes made to the tags of hdr before it is ingested
    tmake        \* a call of Tag.make: [t, a, b, done, data, err]

\* the variables the drivers of the header codec, the lead and the framing
\* leave alone
aux2 == <<hedits, tmake>>

aux == <<craft, cw, clog, crecs, cr, cgot, pm, plog, fi, fadded, fidx, fdump, aux2>>

vars == <<hdr, pc, out, wn, werr, whdr, have, rerr, rd, js, lead, lhave,
          parts, marks, hlist, b1, b2, aux>>

----------------------------------------------------------------------------
(* Bounds of the model *)

MaxOps == 5

MaxPaths == 5

MaxFiles == 4

MaxTags == 2

MaxParts == 2

MaxFrameTags == 1

----------------------------------------------------------------------------
(* The tag registry: type codes and the two region markers *)

RPM_CHAR_TYPE == 1

RPM_INT8_TYPE == 2

RPM_INT16_TYPE == 3

RPM_INT32_TYPE == 4

RPM_INT64_TYPE == 5

RPM_STRING_TYPE == 6

RPM_BIN_TYPE == 7

RPM_STRING_ARRAY_TYPE == 8

RPM_I18NSTRING_TYPE == 9

HEADER_SIGNATURES == 62

HEADER_IMMUTABLE == 63

tagSize == 16

zs == 8

leadsz == 96

----------------------------------------------------------------------------
(* Errors *)

NoErr == "nil"

errTagType == "rpm: invalid tag type"

errTagSize == "rpm: invalid tag size"

errInvalidOffset == "rpm: invalid tag offset"

errNoTags == "rpm: no tags"

errDataLen == "rpm: data length mismatch"

errInvalidLead == "rpm: invalid lead"

errBadAlign == "rpm: bad alignment"

errInvalidHeader == "rpm: invalid header"

errUnexpectedEOF == "rpm: unexpected EOF"

errOffsetOOB == "rpm: offset out of bounds"

ioEOF == "EOF"

ioErrUnexpectedEOF == "unexpected EOF"

----------------------------------------------------------------------------
(* Bytes and big-endian integers (encoding/binary, BigEndian) *)

RECURSIVE Zeros(_)
Zeros(n) == IF n <= 0 THEN <<>> ELSE <<0>> \o Zeros(n - 1)

RECURSIVE Flatten(_)
Flatten(ss) == IF ss = <<>> THEN <<>> ELSE Head(ss) \o Flatten(Tail(ss))

Take(s, n) == SubSeq(s, 1, IF n < Len(s) THEN n ELSE Len(s))

Drop(s, n) == SubSeq(s, (IF n < Len(s) THEN n ELSE Len(s)) + 1, Len(s))

\* a value 0 <= v < 2^16 as two bytes
PutUint16(v) == <<(v \div 256) % 256, v % 256>>

\* a value 0 <= v < 2^31 as four bytes
PutUint32(v) ==
    <<(v \div 16777216) % 256, (v \div 65536) % 256, (v \div 256) % 256, v % 256>>

\* a value 0 <= v < 2^31 as eight bytes
PutUint64(v) == <<0, 0, 0, 0>> \o PutUint32(v)

Uint16(b) == b[1] * 256 + b[2]

Uint32(b) == b[1] * 16777216 + b[2] * 65536 + b[3] * 256 + b[4]

Uint64(b) == Uint32(SubSeq(b, 5, 8))

\* two's complement negation of a four-byte big-endian value: uint32(-int32(x))
RECURSIVE AddOne(_)
AddOne(b) ==
    IF b = <<>> THEN <<>>
    ELSE IF b[Len(b)] = 255
         THEN AddOne(SubSeq(b, 1, Len(b) - 1)) \o <<0>>
         ELSE SubSeq(b, 1, Len(b) - 1) \o <<b[Len(b)] + 1>>

Neg32(b) == AddOne([i \in 1..Len(b) |-> 255 - b[i]])

----------------------------------------------------------------------------
(* Tag data: the five value shapes behind the tagData interface *)

NilData == [kind |-> "nil", v |-> <<>>, len |-> 0, count |-> 0]

StringData(ss, l) == [kind |-> "tagString", v |-> ss, len |-> l, count |-> 0]

Uint16Data(vs) == [kind |-> "tagUint16", v |-> vs, len |-> 0, count |-> 0]

Uint32Data(vs) == [kind |-> "tagUint32", v |-> vs, len |-> 0, count |-> 0]

Uint64Data(vs) == [kind |-> "tagUint64", v |-> vs, len |-> 0, count |-> 0]

BytesData(bs, c) == [kind |-> "tagBytes", v |-> bs, len |-> 0, count |-> c]

RECURSIVE SumStrLen(_)
SumStrLen(ss) ==
    IF ss = <<>> THEN 0 ELSE Len(Head(ss)) + 1 + SumStrLen(Tail(ss))

\* tagData.Len(): the on-wire size of a value
data_Len(d) ==
    CASE d.kind = "tagString" -> IF d.len # 0 THEN d.len ELSE SumStrLen(d.v)
      [] d.kind = "tagUint16" -> Len(d.v) * 2
      [] d.kind = "tagUint32" -> Len(d.v) * 4
      [] d.kind = "tagUint64" -> Len(d.v) * 8
      [] d.kind = "tagBytes"  -> Len(d.v)
      [] OTHER -> 0

\* tagString.Len() stores the length it computed in the value
data_Cache(d) ==
    IF d.kind = "tagString" THEN [d EXCEPT !.len = data_Len(d)] ELSE d

\* tagData.WriteTo(): the bytes of a value
data_WriteTo(d) ==
    CASE d.kind = "tagString" ->
            Flatten([i \in 1..Len(d.v) |-> d.v[i] \o <<0>>])
      [] d.kind = "tagUint16" ->
            Flatten([i \in 1..Len(d.v) |-> PutUint16(d.v[i])])
      [] d.kind = "tagUint32" ->
            Flatten([i \in 1..Len(d.v) |-> PutUint32(d.v[i])])
      [] d.kind = "tagUint64" ->
            Flatten([i \in 1..Len(d.v) |-> PutUint64(d.v[i])])
      [] d.kind = "tagBytes"  -> d.v
      [] OTHER -> <<>>

\* a Tag: the tagHeader fields, the index position, the stream offset, the value
MkTag(id, type, offset, count, data) ==
    [Tag |-> id, Type |-> type, Offset |-> offset, Count |-> count,
     idx |-> 0, off |-> 0, data |-> data]

\* Tag.writeHeader: the 16 bytes of a tag-header
Tag_writeHeader(t) ==
    PutUint32(t.Tag) \o PutUint32(t.Type) \o PutUint32(t.Offset) \o PutUint32(t.Count)

----------------------------------------------------------------------------
(* Header *)

\* new(Header): no tags, dataEnd 0, no region, zero preamble
NewHeader == [Tags |-> <<>>, off |-> 0, region |-> <<>>, Count |-> 0, Length |-> 0]

\* a variant of Header.align that leaves the cursor where it is
Header_align_noalign(h, n) == h.off

\* Header.align(n): (off + n) &^ n for n = 1, 3, 7
Header_align(h, n) == (h.off + n) - ((h.off + n) % (n + 1))

\* Header.Add
Header_Add(h, tag) ==
    LET o == CASE tag.Type = RPM_INT16_TYPE -> Header_align(h, 1)
               [] tag.Type = RPM_INT32_TYPE -> Header_align(h, 3)
               [] tag.Type = RPM_INT64_TYPE -> Header_align(h, 7)
               [] OTHER -> h.off
        t == [tag EXCEPT !.Offset = o, !.data = data_Cache(tag.data)]
    IN  [h EXCEPT !.off = o + data_Len(tag.data), !.Tags = Append(h.Tags, t)]

Header_addString(h, id, t, s) ==
    Header_Add(h, MkTag(id, t, 0, 1, StringData(<<s>>, Len(s) + 1)))

Header_AddString(h, id, s) == Header_addString(h, id, RPM_STRING_TYPE, s)

Header_AddStringI18N(h, id, s) == Header_addString(h, id, RPM_I18NSTRING_TYPE, s)

Header_AddStringArray(h, id, ss) ==
    Header_Add(h, MkTag(id, RPM_STRING_ARRAY_TYPE, 0, Len(ss), StringData(ss, 0)))

Header_AddInt16(h, id, vs) ==
    Header_Add(h, MkTag(id, RPM_INT16_TYPE, 0, Len(vs), Uint16Data(vs)))

Header_AddInt32(h, id, vs) ==
    Header_Add(h, MkTag(id, RPM_INT32_TYPE, 0, Len(vs), Uint32Data(vs)))

Header_AddInt64(h, id, vs) ==
    Header_Add(h, MkTag(id, RPM_INT64_TYPE, 0, Len(vs), Uint64Data(vs)))

Header_AddBin(h, id, bs) ==
    Header_Add(h, MkTag(id, RPM_BIN_TYPE, 0, Len(bs), BytesData(bs, 0)))

\* Header.SetRegion: a fresh region tag without a value
Header_SetRegion(h, id) ==
    [h EXCEPT !.region = <<MkTag(id, RPM_BIN_TYPE, 0, tagSize, NilData)>>]

\* a variant of Header.setRegion whose back-pointer counts the tags only
Header_setRegion_tagsonly(h, pre) ==
    IF h.region = <<>> THEN [h |-> h, pre |-> pre]
    ELSE LET r == h.region[1]
             data == PutUint32(r.Tag) \o PutUint32(RPM_BIN_TYPE)
                     \o Neg32(PutUint32(Len(h.Tags) * tagSize))
                     \o PutUint32(tagSize)
         IN  [h   |-> [h EXCEPT !.region =
                          <<[r EXCEPT !.Offset = h.off, !.data = BytesData(data, 0)]>>],
              pre |-> [Count |-> pre.Count + 1, Length |-> pre.Length + tagSize]]

\* Header.setRegion(pre): materialize the region's value from the current tag
\* count, set its Offset to dataEnd and account for it in the preamble
Header_setRegion(h, pre) ==
    IF h.region = <<>> THEN [h |-> h, pre |-> pre]
    ELSE LET r == h.region[1]
             data == PutUint32(r.Tag) \o PutUint32(RPM_BIN_TYPE)
                     \o Neg32(PutUint32((Len(h.Tags) + 1) * tagSize))
                     \o PutUint32(tagSize)
         IN  [h   |-> [h EXCEPT !.region =
                          <<[r EXCEPT !.Offset = h.off, !.data = BytesData(data, 0)]>>],
              pre |-> [Count |-> pre.Count + 1, Length |-> pre.Length + tagSize]]

\* Header.Region()
Header_Region(h) == Header_setRegion(h, [Count |-> 0, Length |-> 0]).h

\* a variant of Header.writeRegionHeader that writes the region's tag-header
\* as SetRegion left it, without the Offset
Header_writeRegionHeader_nooffset(h) ==
    IF h.region = <<>> THEN <<>>
    ELSE Tag_writeHeader([h.region[1] EXCEPT !.Offset = 0])

\* Header.writeRegionHeader
Header_writeRegionHeader(h) ==
    IF h.region = <<>> THEN <<>> ELSE Tag_writeHeader(h.region[1])

\* Header.writeRegionData
Header_writeRegionData(h) ==
    IF h.region = <<>> THEN <<>> ELSE data_WriteTo(h.region[1].data)

\* sort.Sort(hdr) with Less = Offset <; for at most 12 tags the library runs an
\* insertion sort, which leaves tags of equal Offset in their order
RECURSIVE InsertTag(_, _)
InsertTag(sorted, t) ==
    IF sorted = <<>> THEN <<t>>
    ELSE IF t.Offset < sorted[Len(sorted)].Offset
         THEN Append(InsertTag(SubSeq(sorted, 1, Len(sorted) - 1), t),
                     sorted[Len(sorted)])
         ELSE Append(sorted, t)

\* a variant of the sort that puts the tags in descending Offset order
RECURSIVE SortTags_desc(_)
SortTags_desc(ts) ==
    IF ts = <<>> THEN <<>>
    ELSE LET m == CHOOSE i \in 1..Len(ts) :
                      \A j \in 1..Len(ts) : ts[j].Offset <= ts[i].Offset
         IN  <<ts[m]>> \o SortTags_desc(SubSeq(ts, 1, m - 1)
                                          \o SubSeq(ts, m + 1, Len(ts)))

RECURSIVE SortTags(_)
SortTags(ts) ==
    IF ts = <<>> THEN <<>>
    ELSE InsertTag(SortTags(SubSeq(ts, 1, Len(ts) - 1)), ts[Len(ts)])

\* a variant of Header.pad that checks the offset and writes no padding
Header_pad_nopadding(off, cur) ==
    IF off < cur THEN [n |-> 0, err |-> errInvalidOffset]
    ELSE IF off - cur > zs THEN [n |-> 0, err |-> errInvalidOffset]
    ELSE [n |-> 0, err |-> NoErr]

\* Header.pad(w, off, cur): the zero bytes written before a value, or an error
Header_pad(off, cur) ==
    IF off < cur THEN [n |-> 0, err |-> errInvalidOffset]
    ELSE IF off - cur > zs THEN [n |-> 0, err |-> errInvalidOffset]
    ELSE [n |-> off - cur, err |-> NoErr]

\* the data loop of Header.WriteTo: padding and value of each tag from tag i on
RECURSIVE WriteData(_, _, _, _)
WriteData(ts, i, cur, acc) ==
    IF i > Len(ts) THEN [cur |-> cur, bytes |-> acc, err |-> NoErr]
    ELSE LET p == Header_pad(ts[i].Offset, cur)
             d == data_WriteTo(ts[i].data)
         IN  IF p.err # NoErr
             THEN [cur |-> cur, bytes |-> acc, err |-> p.err]
             ELSE WriteData(ts, i + 1, cur + p.n + Len(d), acc \o Zeros(p.n) \o d)

\* the preamble: magic, count, length
rpmHeaderMagic == <<142, 173, 232, 1, 0, 0, 0, 0>>

Pre_write(pre) == rpmHeaderMagic \o PutUint32(pre.Count) \o PutUint32(pre.Length)

\* a variant of Header.WriteTo that writes the preamble before it looks for tags
Header_WriteTo_prefirst(h) ==
    IF Len(h.Tags) = 0
    THEN [h |-> h, bytes |-> Pre_write([Count |-> 0, Length |-> h.off]), n |-> 0,
          err |-> errNoTags]
    ELSE LET sr  == Header_setRegion(h, [Count |-> Len(h.Tags), Length |-> h.off])
             pre == sr.pre
             hs  == [sr.h EXCEPT !.Tags = SortTags(sr.h.Tags)]
             idx == Pre_write(pre) \o Header_writeRegionHeader(hs)
                    \o Flatten([i \in 1..Len(hs.Tags) |-> Tag_writeHeader(hs.Tags[i])])
             wd  == WriteData(hs.Tags, 1, 0, <<>>)
             rdt == Header_writeRegionData(hs)
         IN  IF wd.err # NoErr
             THEN [h |-> hs, bytes |-> idx \o wd.bytes, n |-> 0, err |-> wd.err]
             ELSE IF Len(rdt) + wd.cur # pre.Length
             THEN [h |-> hs, bytes |-> idx \o wd.bytes \o rdt, n |-> 0,
                   err |-> errDataLen]
             ELSE [h |-> hs, bytes |-> idx \o wd.bytes \o rdt,
                   n |-> pre.Count * tagSize + pre.Length + 16, err |-> NoErr]

\* Header.WriteTo: [h: the header afterwards, bytes: what the sink received,
\* n: the returned count, err: the returned error]
Header_WriteTo(h) ==
    IF Len(h.Tags) = 0
    THEN [h |-> h, bytes |-> <<>>, n |-> 0, err |-> errNoTags]
    ELSE LET sr  == Header_setRegion(h, [Count |-> Len(h.Tags), Length |-> h.off])
             pre == sr.pre
             hs  == [sr.h EXCEPT !.Tags = SortTags(sr.h.Tags)]
             idx == Pre_write(pre) \o Header_writeRegionHeader(hs)
                    \o Flatten([i \in 1..Len(hs.Tags) |-> Tag_writeHeader(hs.Tags[i])])
             wd  == WriteData(hs.Tags, 1, 0, <<>>)
             rdt == Header_writeRegionData(hs)
         IN  IF wd.err # NoErr
             THEN [h |-> hs, bytes |-> idx \o wd.bytes, n |-> 0, err |-> wd.err]
             ELSE IF Len(rdt) + wd.cur # pre.Length
             THEN [h |-> hs, bytes |-> idx \o wd.bytes \o rdt, n |-> 0,
                   err |-> errDataLen]
             ELSE [h |-> hs, bytes |-> idx \o wd.bytes \o rdt,
                   n |-> pre.Count * tagSize + pre.Length + 16, err |-> NoErr]

----------------------------------------------------------------------------
(* Reader.  A Reader is [r |-> the unread bytes, off |-> the running offset]. *)

NewReader(b) == [r |-> b, off |-> 0]

\* io.ReadFull of n bytes: io.EOF when nothing is left, io.ErrUnexpectedEOF
\* when the stream ends before n bytes; the bytes read are consumed either way
ReadFull(r, n) ==
    IF n = 0 THEN [b |-> <<>>, rest |-> r, err |-> NoErr]
    ELSE IF Len(r) = 0 THEN [b |-> <<>>, rest |-> r, err |-> ioEOF]
    ELSE IF Len(r) < n THEN [b |-> r, rest |-> <<>>, err |-> ioErrUnexpectedEOF]
    ELSE [b |-> Take(r, n), rest |-> Drop(r, n), err |-> NoErr]

\* Reader.align: discard the bytes up to the next multiple of 8
Reader_align(r) ==
    LET i == (r.off + 7) - ((r.off + 7) % 8)
        N == i - r.off
        n == IF Len(r.r) < N THEN Len(r.r) ELSE N
    IN  IF N - n # 0
        THEN [rd |-> [r EXCEPT !.r = Drop(r.r, n)], err |-> errBadAlign]
        ELSE [rd |-> [r |-> Drop(r.r, n), off |-> r.off + n], err |-> NoErr]

\* Reader.header: read and check the 16-byte preamble
Reader_header(r) ==
    LET f == ReadFull(r.r, 16)
    IN  IF f.err # NoErr
        THEN [rd |-> [r EXCEPT !.r = f.rest], hdr |-> <<>>, err |-> f.err]
        ELSE IF SubSeq(f.b, 1, 8) # rpmHeaderMagic
        THEN [rd |-> [r EXCEPT !.r = f.rest], hdr |-> <<>>, err |-> errInvalidHeader]
        ELSE [rd  |-> [r |-> f.rest, off |-> r.off + tagSize],
              hdr |-> <<[NewHeader EXCEPT !.Count = Uint32(SubSeq(f.b, 9, 12)),
                                          !.Length = Uint32(SubSeq(f.b, 13, 16))]>>,
              err |-> NoErr]

\* Reader.tags: read hdr.Count tag-headers, from index i (0-based) on
RECURSIVE Reader_tags(_, _, _)
Reader_tags(r, h, i) ==
    IF i >= h.Count THEN [rd |-> r, hdr |-> h, err |-> NoErr]
    ELSE LET f == ReadFull(r.r, 16)
             t == [Tag |-> Uint32(SubSeq(f.b, 1, 4)), Type |-> Uint32(SubSeq(f.b, 5, 8)),
                   Offset |-> Uint32(SubSeq(f.b, 9, 12)),
                   Count |-> Uint32(SubSeq(f.b, 13, 16)),
                   idx |-> i, off |-> 0, data |-> NilData]
         IN  IF f.err # NoErr
             THEN [rd |-> [r EXCEPT !.r = f.rest], hdr |-> h, err |-> f.err]
             ELSE IF t.Offset > h.Length
             THEN [rd |-> [r EXCEPT !.r = f.rest], hdr |-> h, err |-> errOffsetOOB]
             ELSE Reader_tags([r |-> f.rest, off |-> r.off + tagSize],
                              [h EXCEPT !.Tags = Append(h.Tags, t)], i + 1)

\* Reader.tagaligned: the running stream offset against the tag's Type
Reader_tagaligned(r, tag) ==
    CASE tag.Type = RPM_INT16_TYPE -> r.off % 2 = 0
      [] tag.Type = RPM_INT32_TYPE -> r.off % 4 = 0
      [] tag.Type = RPM_INT64_TYPE -> r.off % 8 = 0
      [] OTHER -> TRUE

\* a variant of Tag.make that halves the span for every integer width
Tag_make_halved(t, a, b) ==
    LET dl == b - a
        z(n) == [i \in 1..n |-> 0]
    IN  CASE t.Type = RPM_INT16_TYPE ->
               IF t.Count > dl \div 2 THEN [data |-> NilData, err |-> errTagSize]
               ELSE [data |-> Uint16Data(z(t.Count)), err |-> NoErr]
          [] t.Type = RPM_INT32_TYPE ->
               IF t.Count > dl \div 2 THEN [data |-> NilData, err |-> errTagSize]
               ELSE [data |-> Uint32Data(z(t.Count)), err |-> NoErr]
          [] t.Type = RPM_INT64_TYPE ->
               IF t.Count > dl \div 2 THEN [data |-> NilData, err |-> errTagSize]
               ELSE [data |-> Uint64Data(z(t.Count)), err |-> NoErr]
          [] t.Type \in {RPM_STRING_TYPE, RPM_I18NSTRING_TYPE, RPM_STRING_ARRAY_TYPE} ->
               IF t.Count > dl THEN [data |-> NilData, err |-> errTagSize]
               ELSE [data |-> StringData([i \in 1..t.Count |-> <<>>], 0), err |-> NoErr]
          [] t.Type \in {RPM_BIN_TYPE, RPM_CHAR_TYPE, RPM_INT8_TYPE} ->
               IF t.Count > dl THEN [data |-> NilData, err |-> errTagSize]
               ELSE [data |-> BytesData(<<>>, t.Count), err |-> NoErr]
          [] OTHER -> [data |-> NilData, err |-> errTagType]

\* Tag.make(a, b): the empty value of the shape the Type fixes, or an error
Tag_make(t, a, b) ==
    LET dl == b - a
        z(n) == [i \in 1..n |-> 0]
    IN  CASE t.Type = RPM_INT16_TYPE ->
               IF t.Count > dl \div 2 THEN [data |-> NilData, err |-> errTagSize]
               ELSE [data |-> Uint16Data(z(t.Count)), err |-> NoErr]
          [] t.Type = RPM_INT32_TYPE ->
               IF t.Count > dl \div 4 THEN [data |-> NilData, err |-> errTagSize]
               ELSE [data |-> Uint32Data(z(t.Count)), err |-> NoErr]
          [] t.Type = RPM_INT64_TYPE ->
               IF t.Count > dl \div 8 THEN [data |-> NilData, err |-> errTagSize]
               ELSE [data |-> Uint64Data(z(t.Count)), err |-> NoErr]
          [] t.Type \in {RPM_STRING_TYPE, RPM_I18NSTRING_TYPE, RPM_STRING_ARRAY_TYPE} ->
               IF t.Count > dl THEN [data |-> NilData, err |-> errTagSize]
               ELSE [data |-> StringData([i \in 1..t.Count |-> <<>>], 0), err |-> NoErr]
          [] t.Type \in {RPM_BIN_TYPE, RPM_CHAR_TYPE, RPM_INT8_TYPE} ->
               IF t.Count > dl THEN [data |-> NilData, err |-> errTagSize]
               ELSE [data |-> BytesData(<<>>, t.Count), err |-> NoErr]
          [] OTHER -> [data |-> NilData, err |-> errTagType]

\* position of the first 0 byte of b, or 0
RECURSIVE IndexNul(_, _)
IndexNul(b, i) ==
    IF i > Len(b) THEN 0 ELSE IF b[i] = 0 THEN i ELSE IndexNul(b, i + 1)

\* the loop of tagString.ReadFrom: n NUL-terminated strings from b
RECURSIVE ReadStrings(_, _, _)
ReadStrings(b, n, acc) ==
    IF n = 0 THEN [v |-> acc, len |-> Len(Flatten(acc)) + Len(acc), err |-> NoErr]
    ELSE LET k == IndexNul(b, 1)
         IN  IF k = 0 THEN [v |-> acc, len |-> 0, err |-> ioEOF]
             ELSE ReadStrings(Drop(b, k), n - 1, Append(acc, Take(b, k - 1)))

RECURSIVE DecodeInts(_, _)
DecodeInts(b, w) ==
    IF Len(b) < w THEN <<>>
    ELSE <<(CASE w = 2 -> Uint16(Take(b, 2))
              [] w = 4 -> Uint32(Take(b, 4))
              [] OTHER -> Uint64(Take(b, 8)))>> \o DecodeInts(Drop(b, w), w)

\* tagData.ReadFrom on a LimitedReader of lim bytes over the stream s:
\* [data, w: the returned count, used: the bytes taken from the stream, err].
\* The buffered reader of tagString takes the whole span at its first read
\* (spans here are shorter than its buffer); bytes.Buffer.ReadFrom reads to
\* the end of the span; binary.Read reads exactly the value.
data_ReadFrom(d, s, lim) ==
    LET span == Take(s, lim)
        w    == CASE d.kind = "tagUint16" -> 2 [] d.kind = "tagUint32" -> 4 [] OTHER -> 8
    IN  CASE d.kind = "tagString" ->
               IF Len(d.v) = 0
               THEN [data |-> d, w |-> 0, used |-> 0, err |-> NoErr]
               ELSE LET rs == ReadStrings(span, Len(d.v), <<>>)
                    IN  IF rs.err # NoErr
                        THEN [data |-> d, w |-> 0, used |-> Len(span), err |-> rs.err]
                        ELSE [data |-> StringData(rs.v, d.len + rs.len),
                              w |-> Len(span), used |-> Len(span), err |-> NoErr]
          [] d.kind = "tagBytes" ->
               IF Len(span) < d.count
               THEN [data |-> [d EXCEPT !.v = span], w |-> 0, used |-> Len(span),
                     err |-> errUnexpectedEOF]
               ELSE [data |-> [d EXCEPT !.v = Take(span, d.count)],
                     w |-> Len(span), used |-> Len(span), err |-> NoErr]
          [] OTHER ->
               LET f == ReadFull(span, Len(d.v) * w)
               IN  IF f.err # NoErr
                   THEN [data |-> d, w |-> Len(d.v) * w, used |-> Len(f.b), err |-> f.err]
                   ELSE [data |-> [d EXCEPT !.v = DecodeInts(f.b, w)],
                         w |-> Len(d.v) * w, used |-> Len(f.b), err |-> NoErr]

\* the value loop of Reader.Next, from tag i (1-based) on
RECURSIVE Reader_values(_, _, _)
Reader_values(r, h, i) ==
    IF i > Len(h.Tags) THEN [rd |-> r, hdr |-> h, err |-> NoErr]
    ELSE LET v  == h.Tags[i]
             nt == IF i - 1 = h.Count - 1 THEN h.Length ELSE h.Tags[i + 1].Offset
             nr == nt - v.Offset
             mk == Tag_make(v, v.Offset, nt)
             rf == data_ReadFrom(mk.data, r.r, nr)
             N  == nr - rf.used
             s1 == Drop(r.r, rf.used)
             dn == IF Len(s1) < N THEN Len(s1) ELSE N
             w  == rf.w + dn
             fail(rr, e) == [rd |-> rr, hdr |-> h, err |-> e]
         IN  IF ~Reader_tagaligned(r, v) THEN fail(r, errBadAlign)
             ELSE IF nt <= v.Offset THEN fail(r, errOffsetOOB)
             ELSE IF mk.err # NoErr THEN fail(r, mk.err)
             ELSE IF rf.err # NoErr THEN fail([r EXCEPT !.r = s1], rf.err)
             ELSE IF N # 0 /\ N >= 8 THEN fail([r EXCEPT !.r = s1], errUnexpectedEOF)
             ELSE IF nr # w THEN fail([r EXCEPT !.r = Drop(s1, dn)], errUnexpectedEOF)
             ELSE Reader_values(
                      [r |-> Drop(s1, dn), off |-> r.off + w],
                      [h EXCEPT !.Tags[i] = [v EXCEPT !.off = r.off, !.data = rf.data]],
                      i + 1)

\* the end of Reader.Next: a last tag with a region marker id becomes the region
Reader_region(h) ==
    LET lt == h.Tags[Len(h.Tags)]
    IN  IF lt.Tag \in {HEADER_IMMUTABLE, HEADER_SIGNATURES}
        THEN [Header_SetRegion(h, lt.Tag) EXCEPT
                 !.Tags = SubSeq(h.Tags, 1, Len(h.Tags) - 1), !.off = lt.Offset]
        ELSE [h EXCEPT !.off = h.Length]

\* Reader.Next: [rd: the reader afterwards, hdr: <<header>> or <<>> (nil), err]
Reader_Next(r) ==
    LET a  == Reader_align(r)
        hd == Reader_header(a.rd)
        tg == Reader_tags(hd.rd, hd.hdr[1], 0)
        st == [tg.hdr EXCEPT !.Tags = SortTags(tg.hdr.Tags)]
        vl == Reader_values(tg.rd, st, 1)
    IN  IF a.err # NoErr THEN [rd |-> a.rd, hdr |-> <<>>, err |-> a.err]
        ELSE IF hd.err # NoErr THEN [rd |-> hd.rd, hdr |-> <<>>, err |-> hd.err]
        ELSE IF tg.err # NoErr THEN [rd |-> tg.rd, hdr |-> <<>>, err |-> tg.err]
        ELSE IF Len(tg.hdr.Tags) = 0 THEN [rd |-> tg.rd, hdr |-> <<tg.hdr>>, err |-> NoErr]
        ELSE IF vl.err # NoErr THEN [rd |-> vl.rd, hdr |-> <<>>, err |-> vl.err]
        ELSE [rd |-> vl.rd, hdr |-> <<Reader_region(vl.hdr)>>, err |-> NoErr]

----------------------------------------------------------------------------
(* Lead *)

leadMagic == <<237, 171, 238, 219>>

\* copy(dst[:], name) into a zeroed array of n bytes
CopyInto(n, name) == [i \in 1..n |-> IF i <= Len(name) THEN name[i] ELSE 0]

\* NewLead(name, lt)
NewLead(name, lt) ==
    [Magic |-> leadMagic, Major |-> 3, Minor |-> 0, Type |-> lt, ArchNum |-> 1,
     Name |-> CopyInto(66, name), OsNum |-> 1, SignatureType |-> 5]

\* a variant of the Lead layout with ArchNum and OsNum in each other's place
Lead_bytes_swapped(l) ==
    l.Magic \o <<l.Major, l.Minor>> \o PutUint16(l.Type) \o PutUint16(l.OsNum)
    \o l.Name \o PutUint16(l.ArchNum) \o PutUint16(l.SignatureType) \o Zeros(16)

\* binary.Write of a Lead: 96 bytes, the blank 16-byte field written as zeros
Lead_bytes(l) ==
    l.Magic \o <<l.Major, l.Minor>> \o PutUint16(l.Type) \o PutUint16(l.ArchNum)
    \o l.Name \o PutUint16(l.OsNum) \o PutUint16(l.SignatureType) \o Zeros(16)

\* Lead.WriteTo
Lead_WriteTo(l) == [bytes |-> Lead_bytes(l), n |-> 96, err |-> NoErr]

\* Reader.Lead: [rd, lead: <<lead>> or <<>> (nil), err]
Reader_Lead(r) ==
    LET f == ReadFull(r.r, 96)
        l == [Magic |-> SubSeq(f.b, 1, 4), Major |-> f.b[5], Minor |-> f.b[6],
              Type |-> Uint16(SubSeq(f.b, 7, 8)), ArchNum |-> Uint16(SubSeq(f.b, 9, 10)),
              Name |-> SubSeq(f.b, 11, 76), OsNum |-> Uint16(SubSeq(f.b, 77, 78)),
              SignatureType |-> Uint16(SubSeq(f.b, 79, 80))]
    IN  IF f.err # NoErr
        THEN [rd |-> [r EXCEPT !.r = f.rest], lead |-> <<>>, err |-> f.err]
        ELSE IF l.Magic # leadMagic
        THEN [rd |-> [r EXCEPT !.r = f.rest], lead |-> <<>>, err |-> errInvalidLead]
        ELSE [rd |-> [r |-> f.rest, off |-> r.off + leadsz], lead |-> <<l>>,
              err |-> NoErr]

----------------------------------------------------------------------------
(* WriteHeaders.  A part is [kind |-> "lead" or "hdr", v |-> the Lead or Header]. *)

LeadPart(l) == [kind |-> "lead", v |-> l]

HdrPart(h) == [kind |-> "hdr", v |-> h]

Part_WriteTo(p) ==
    IF p.kind = "lead"
    THEN [v |-> p.v] @@ Lead_WriteTo(p.v)
    ELSE LET w == Header_WriteTo(p.v)
         IN  [v |-> w.h, bytes |-> w.bytes, n |-> w.n, err |-> w.err]

\* a variant of the alignment of WriteHeaders that pads nothing
WriteHeaders_align_none(r) == r

\* headers need to be 8b aligned: p := (r + 0x7) &^ 0x7
WriteHeaders_align(r) == (r + 7) - ((r + 7) % 8)

\* the loop of WriteHeaders from part i on: r is the running count, acc the
\* bytes the sink holds, ws[k] the outcome of v.WriteTo(w) for part k
\* (headers are sorted by their WriteTo: parts before i, and part i when it
\* fails, are the ones it has been called on), ms the record of <<sink length
\* before the padding, padding, sink length after the part>> kept for each
\* part written
RECURSIVE WriteHeadersLoop(_, _, _, _, _, _)
WriteHeadersLoop(ps, ws, i, r, acc, ms) ==
    IF i > Len(ps)
    THEN [bytes |-> acc, n |-> r, err |-> NoErr, marks |-> ms,
          parts |-> [k \in 1..Len(ps) |-> [ps[k] EXCEPT !.v = ws[k].v]]]
    ELSE LET p == WriteHeaders_align(r)
             a == acc \o Zeros(p - r) \o ws[i].bytes
         IN  IF ws[i].err # NoErr
             THEN [bytes |-> a, n |-> 0, err |-> ws[i].err, marks |-> ms,
                   parts |-> [k \in 1..Len(ps) |->
                                 IF k <= i THEN [ps[k] EXCEPT !.v = ws[k].v]
                                 ELSE ps[k]]]
             ELSE WriteHeadersLoop(ps, ws, i + 1, r + (p - r) + ws[i].n, a,
                                   Append(ms, <<Len(acc), p - r, Len(a)>>))

WriteHeaders(ps) ==
    WriteHeadersLoop(ps, [k \in 1..Len(ps) |-> Part_WriteTo(ps[k])], 1, 0, <<>>, <<>>)

----------------------------------------------------------------------------
(* JSON forms.  A JSON document is kept as its syntax tree: a number is the  *)
(* sequence of its decimal digits, a string the sequence of its code points, *)
(* a byte-blob the base64 text (values 0..63, 64 for '=').                    *)

RECURSIVE FormatUint(_)
FormatUint(n) == IF n < 10 THEN <<n>> ELSE Append(FormatUint(n \div 10), n % 10)

RECURSIVE ParseUint(_)
ParseUint(d) ==
    IF Len(d) = 1 THEN d[1]
    ELSE ParseUint(SubSeq(d, 1, Len(d) - 1)) * 10 + d[Len(d)]

\* encoding/json writes a byte that is no valid UTF-8 as U+FFFD
JSONString(s) == [i \in 1..Len(s) |-> IF s[i] < 128 THEN s[i] ELSE 65533]

GoString(j) ==
    Flatten([i \in 1..Len(j) |-> IF j[i] < 128 THEN <<j[i]>> ELSE <<239, 191, 189>>])

RECURSIVE Base64Encode(_)
Base64Encode(b) ==
    CASE Len(b) = 0 -> <<>>
      [] Len(b) = 1 -> <<b[1] \div 4, (b[1] % 4) * 16, 64, 64>>
      [] Len(b) = 2 ->
            <<b[1] \div 4, (b[1] % 4) * 16 + b[2] \div 16, (b[2] % 16) * 4, 64>>
      [] OTHER ->
            <<b[1] \div 4, (b[1] % 4) * 16 + b[2] \div 16,
              (b[2] % 16) * 4 + b[3] \div 64, b[3] % 64>>
            \o Base64Encode(Drop(b, 3))

RECURSIVE Base64Decode(_)
Base64Decode(t) ==
    IF Len(t) < 4 THEN <<>>
    ELSE (CASE t[3] = 64 -> <<t[1] * 4 + t[2] \div 16>>
            [] t[4] = 64 -> <<t[1] * 4 + t[2] \div 16, (t[2] % 16) * 16 + t[3] \div 4>>
            [] OTHER -> <<t[1] * 4 + t[2] \div 16, (t[2] % 16) * 16 + t[3] \div 4,
                          (t[3] % 4) * 64 + t[4]>>)
         \o Base64Decode(Drop(t, 4))

JSONNull == [k |-> "null", e |-> <<>>]

\* a nil slice is written as null, any other slice as an array
JSONArray(e) == IF e = <<>> THEN JSONNull ELSE [k |-> "array", e |-> e]

JSONBytes(b) == [k |-> "string", e |-> Base64Encode(b)]

\* Tag.MarshalJSON: {Tag, Type, Offset, Count, Data}; the Type selects the
\* accessor, which fails when the value has another shape
Tag_MarshalJSON(t) ==
    LET d == t.data
        obj(data) == [v |-> [Tag |-> FormatUint(t.Tag), Type |-> FormatUint(t.Type),
                             Offset |-> FormatUint(t.Offset),
                             Count |-> FormatUint(t.Count), Data |-> data],
                      err |-> NoErr]
        bad(e) == [v |-> <<>>, err |-> e]
        nums == JSONArray([i \in 1..Len(d.v) |-> FormatUint(d.v[i])])
    IN  CASE t.Type \in {RPM_STRING_TYPE, RPM_I18NSTRING_TYPE, RPM_STRING_ARRAY_TYPE} ->
               IF d.kind # "tagString" THEN bad("panic: nil pointer dereference")
               ELSE obj(JSONArray([i \in 1..Len(d.v) |-> JSONString(d.v[i])]))
          [] t.Type = RPM_INT16_TYPE ->
               IF d.kind # "tagUint16" THEN bad(errTagType) ELSE obj(nums)
          [] t.Type = RPM_INT32_TYPE ->
               IF d.kind # "tagUint32" THEN bad(errTagType) ELSE obj(nums)
          [] t.Type = RPM_INT64_TYPE ->
               IF d.kind # "tagUint64" THEN bad(errTagType) ELSE obj(nums)
          [] OTHER ->
               IF d.kind # "tagBytes" THEN bad(errTagType) ELSE obj(JSONBytes(d.v))

\* Tag.UnmarshalJSON
Tag_UnmarshalJSON(o) ==
    LET type == ParseUint(o.Type)
        e    == o.Data.e
        nums == [i \in 1..Len(e) |-> ParseUint(e[i])]
    IN  MkTag(ParseUint(o.Tag), type, ParseUint(o.Offset), ParseUint(o.Count),
              CASE type \in {RPM_STRING_TYPE, RPM_I18NSTRING_TYPE,
                             RPM_STRING_ARRAY_TYPE} ->
                      StringData([i \in 1..Len(e) |-> GoString(e[i])], 0)
                [] type = RPM_INT16_TYPE -> Uint16Data(nums)
                [] type = RPM_INT32_TYPE -> Uint32Data(nums)
                [] type = RPM_INT64_TYPE -> Uint64Data(nums)
                [] OTHER -> BytesData(Base64Decode(e), 0))

\* Header.MarshalJSON: the region, materialized, is the first element
Header_MarshalJSON(h) ==
    LET hr == Header_setRegion(h, [Count |-> 0, Length |-> 0]).h
        ts == hr.region \o hr.Tags
        os == [i \in 1..Len(ts) |-> Tag_MarshalJSON(ts[i])]
    IN  IF \E i \in 1..Len(os) : os[i].err # NoErr
        THEN [h |-> hr, js |-> <<>>,
              err |-> os[CHOOSE i \in 1..Len(os) :
                            /\ os[i].err # NoErr
                            /\ \A j \in 1..(i - 1) : os[j].err = NoErr].err]
        ELSE [h |-> hr, js |-> [i \in 1..Len(os) |-> os[i].v], err |-> NoErr]

\* Header.UnmarshalJSON: decode the tags, sort them by Offset, and take a last
\* tag with a region marker id as the region
Header_UnmarshalJSON(h, doc) ==
    LET ts == SortTags([i \in 1..Len(doc) |-> Tag_UnmarshalJSON(doc[i])])
        lt == ts[Len(ts)]
    IN  IF Len(doc) = 0 THEN [h EXCEPT !.Tags = <<>>]
        ELSE IF lt.Tag \in {HEADER_IMMUTABLE, HEADER_SIGNATURES}
        THEN [Header_SetRegion(h, lt.Tag) EXCEPT
                 !.Tags = SubSeq(ts, 1, Len(ts) - 1), !.off = lt.Offset]
        ELSE [h EXCEPT !.Tags = ts, !.off = lt.Offset + data_Len(lt.data)]

----------------------------------------------------------------------------
(* Inputs of the model *)

\* strings: "" and "a"
Strs == {<<>>, <<97>>}

\* string arrays: no strings, and {"a", ""}
StrArrays == {<<>>, << <<97>>, <<>> >>}

Int16s == {<<>>, <<4386>>}

Int32s == {<<>>, <<287454020>>}

Int64s == {<<>>, <<255>>}

Bins == {<<>>, <<1, 2, 3>>}

\* region ids: the two markers and an id that is no marker
RegionIds == {HEADER_SIGNATURES, HEADER_IMMUTABLE, 1000}

\* makeHdr of the tests: seven tags of all the add* kinds (the integer values
\* are kept below 2^31; counts, lengths and layout are those of the test)
makeHdr ==
    LET h1 == Header_AddString(NewHeader, 1, <<102, 111, 111>>)
        h2 == Header_AddStringI18N(h1, 1, <<73, 49, 56, 78>>)
        h3 == Header_AddStringArray(h2, 2,
                  << <<102, 111, 111>>, <<98, 97, 114>>, <<98, 97, 122>> >>)
        h4 == Header_AddInt16(h3, 3, <<4386, 13124, 21862>>)
        h5 == Header_AddInt32(h4, 4, <<287454020, 1432778632, 420553267>>)
        h6 == Header_AddInt64(h5, 5, <<287454020, 153, 255>>)
    IN  Header_AddBin(h6, 6, <<102, 111, 111>>)

NoLead == NewLead(<<>>, 0)

----------------------------------------------------------------------------
(* Spec: one header is built by add* calls, serialized, and parsed back *)

\* no prefix map in use
NoFileIndex ==
    [dirNames |-> [s |-> <<>>, m |-> <<>>], dirIndexes |-> <<>>, name |-> <<>>,
     user |-> <<>>, group |-> <<>>, dev |-> <<>>, ino |-> <<>>, mtime |-> <<>>,
     mode |-> <<>>, linkto |-> <<>>, digest |-> <<>>, flags |-> <<>>,
     verify |-> <<>>, size |-> <<>>, lsize |-> <<>>, lsizeNil |-> TRUE,
     rpmsize |-> 0, rpmlsize |-> <<0, 0, 0, 0, 0, 0, 0, 0>>]

NoDump == [err |-> "nil", out |-> <<>>]

\* no header edited
NoMake == [t |-> [Type |-> 0, Count |-> 0], a |-> 0, b |-> 0, done |-> FALSE,
           data |-> <<>>, err |-> "nil"]

Aux2Init == hedits = <<>> /\ tmake = NoMake

FilesInit ==
    /\ pm = [s |-> <<>>, m |-> <<>>] /\ plog = <<>>
    /\ fi = NoFileIndex /\ fadded = <<>>
    /\ fidx = [idx |-> NoFileIndex, err |-> "nil"]
    /\ fdump = [a |-> NoDump, b |-> NoDump]
    /\ Aux2Init

\* no hand-made header
NoCraft == [Count |-> 0, Length |-> 0, tags |-> <<>>, data |-> <<>>]

AuxInit ==
    /\ craft = NoCraft
    /\ cw = [off |-> 0, w |-> <<>>] /\ clog = <<>> /\ crecs = <<>>
    /\ cr = [r |-> <<>>, off |-> 0] /\ cgot = <<>>
    /\ FilesInit

Init ==
    /\ hdr = NewHeader /\ pc = "build" /\ out = <<>> /\ wn = 0 /\ werr = NoErr
    /\ whdr = NewHeader /\ have = <<>> /\ rerr = NoErr /\ rd = NewReader(<<>>)
    /\ js = <<>> /\ lead = NoLead /\ lhave = <<>> /\ parts = <<>> /\ marks = <<>>
    /\ hlist = <<>> /\ b1 = <<>> /\ b2 = <<>> /\ AuxInit

NotHdr == <<aux, pc, out, wn, werr, whdr, have, rerr, rd, js, lead, lhave, parts,
            marks, hlist, b1, b2>>

CanAdd == pc = "build" /\ Len(hdr.Tags) < MaxTags

AddString ==
    /\ CanAdd
    /\ \E s \in Strs : hdr' = Header_AddString(hdr, 1, s)
    /\ UNCHANGED NotHdr

AddStringI18N ==
    /\ CanAdd
    /\ \E s \in Strs : hdr' = Header_AddStringI18N(hdr, 1, s)
    /\ UNCHANGED NotHdr

AddStringArray ==
    /\ CanAdd
    /\ \E ss \in StrArrays : hdr' = Header_AddStringArray(hdr, 2, ss)
    /\ UNCHANGED NotHdr

AddInt16 ==
    /\ CanAdd
    /\ \E vs \in Int16s : hdr' = Header_AddInt16(hdr, 3, vs)
    /\ UNCHANGED NotHdr

AddInt32 ==
    /\ CanAdd
    /\ \E vs \in Int32s : hdr' = Header_AddInt32(hdr, 4, vs)
    /\ UNCHANGED NotHdr

AddInt64 ==
    /\ CanAdd
    /\ \E vs \in Int64s : hdr' = Header_AddInt64(hdr, 5, vs)
    /\ UNCHANGED NotHdr

AddBin ==
    /\ CanAdd
    /\ \E bs \in Bins : hdr' = Header_AddBin(hdr, 6, bs)
    /\ UNCHANGED NotHdr

\* the header of the tests, built in one step on a header without tags
MakeHdr ==
    /\ pc = "build" /\ hdr.Tags = <<>>
    /\ hdr' = [makeHdr EXCEPT !.region = hdr.region]
    /\ UNCHANGED NotHdr

SetRegion ==
    /\ pc = "build"
    /\ \E id \in RegionIds : hdr' = Header_SetRegion(hdr, id)
    /\ UNCHANGED NotHdr

\* hdr.WriteTo(b) on a new buffer b
WriteTo ==
    /\ pc = "build"
    /\ LET w == Header_WriteTo(hdr)
       IN  /\ hdr' = w.h /\ out' = w.bytes /\ wn' = w.n /\ werr' = w.err
    /\ whdr' = hdr
    /\ pc' = "written"
    /\ UNCHANGED <<aux, have, rerr, rd, js, lead, lhave, parts, marks, hlist, b1, b2>>

\* NewReader(b).Next() on the buffer written
ReaderNext ==
    /\ pc = "written"
    /\ LET r == Reader_Next(NewReader(out))
       IN  /\ rd' = r.rd /\ have' = r.hdr /\ rerr' = r.err
    /\ pc' = "read"
    /\ UNCHANGED <<aux, hdr, out, wn, werr, whdr, js, lead, lhave, parts, marks, hlist,
                   b1, b2>>

\* json.Marshal(hdr)
MarshalJSON ==
    /\ pc = "build"
    /\ LET m == Header_MarshalJSON(hdr)
       IN  /\ hdr' = m.h /\ js' = m.js /\ werr' = m.err
    /\ whdr' = hdr
    /\ pc' = "marshalled"
    /\ UNCHANGED <<aux, out, wn, have, rerr, rd, lead, lhave, parts, marks, hlist, b1, b2>>

\* json.Unmarshal(jb, have) into a new Header
UnmarshalJSON ==
    /\ pc = "marshalled" /\ werr = NoErr
    /\ have' = <<Header_UnmarshalJSON(NewHeader, js)>>
    /\ pc' = "json"
    /\ UNCHANGED <<aux, hdr, out, wn, werr, whdr, rerr, rd, js, lead, lhave, parts, marks,
                   hlist, b1, b2>>

\* hdrEq of the tests: materialize the region of the header read back and
\* serialize both headers
HdrEq ==
    /\ pc = "json"
    /\ LET w1 == Header_WriteTo(hdr)
           w2 == Header_WriteTo(Header_Region(have[1]))
       IN  /\ hdr' = w1.h /\ have' = <<w2.h>>
           /\ b1' = <<[bytes |-> w1.bytes, err |-> w1.err]>>
           /\ b2' = <<[bytes |-> w2.bytes, err |-> w2.err]>>
    /\ pc' = "jsoneq"
    /\ UNCHANGED <<aux, out, wn, werr, whdr, rerr, rd, js, lead, lhave, parts, marks, hlist>>

Next ==
    \/ AddString \/ AddStringI18N \/ AddStringArray \/ AddInt16 \/ AddInt32
    \/ AddInt64 \/ AddBin \/ MakeHdr \/ SetRegion \/ WriteTo \/ ReaderNext
    \/ MarshalJSON \/ UnmarshalJSON \/ HdrEq

Spec == Init /\ [][Next]_vars

----------------------------------------------------------------------------
(* SpecLead: a Lead is written and read back *)

LeadBinary == 0

LeadSource == 1

\* names: "", "lead", and a name of 70 bytes, longer than the field
LeadNames == {<<>>, <<108, 101, 97, 100>>, [i \in 1..70 |-> 120]}

\* magics: the lead magic, "test", and a magic wrong in its last byte
LeadMagics == {leadMagic, <<116, 101, 115, 116>>, <<237, 171, 238, 0>>}

Leads ==
    {[NewLead(n, t) EXCEPT !.Magic = m, !.Major = mj, !.Minor = mn, !.ArchNum = a,
                           !.OsNum = o, !.SignatureType = st] :
        n \in LeadNames, t \in {LeadBinary, LeadSource}, m \in LeadMagics,
        mj \in {3, 255}, mn \in {0, 1}, a \in {1, 258}, o \in {1, 65535},
        st \in {5, 1280}}

InitLead ==
    /\ hdr = NewHeader /\ pc = "build" /\ out = <<>> /\ wn = 0 /\ werr = NoErr
    /\ whdr = NewHeader /\ have = <<>> /\ rerr = NoErr /\ rd = NewReader(<<>>)
    /\ js = <<>> /\ lead \in Leads /\ lhave = <<>> /\ parts = <<>> /\ marks = <<>>
    /\ hlist = <<>> /\ b1 = <<>> /\ b2 = <<>> /\ AuxInit

\* la.WriteTo(b) on a new buffer b
LeadWriteTo ==
    /\ pc = "build"
    /\ LET w == Lead_WriteTo(lead)
       IN  out' = w.bytes /\ wn' = w.n /\ werr' = w.err
    /\ pc' = "written"
    /\ UNCHANGED <<aux, hdr, whdr, have, rerr, rd, js, lead, lhave, parts, marks, hlist,
                   b1, b2>>

\* NewReader(b).Lead()
ReadLead ==
    /\ pc = "written"
    /\ LET r == Reader_Lead(NewReader(out))
       IN  rd' = r.rd /\ lhave' = r.lead /\ rerr' = r.err
    /\ pc' = "read"
    /\ UNCHANGED <<aux, hdr, out, wn, werr, whdr, have, js, lead, parts, marks, hlist,
                   b1, b2>>

NextLead == LeadWriteTo \/ ReadLead

SpecLead == InitLead /\ [][NextLead]_vars

----------------------------------------------------------------------------
(* SpecFrame: WriteHeaders(lead, h1, ..., hn), then Lead() and n times Next() *)

InitFrame ==
    /\ hdr = NewHeader /\ pc = "idle" /\ out = <<>> /\ wn = 0 /\ werr = NoErr
    /\ whdr = NewHeader /\ have = <<>> /\ rerr = NoErr /\ rd = NewReader(<<>>)
    /\ js = <<>> /\ lead = NewLead(<<116, 101, 115, 116>>, LeadBinary)
    /\ lhave = <<>> /\ parts = <<>> /\ marks = <<>>
    /\ hlist = <<>> /\ b1 = <<>> /\ b2 = <<>> /\ AuxInit

NotHdrPc == <<aux, out, wn, werr, whdr, have, rerr, rd, js, lead, lhave, parts, marks,
              hlist, b1, b2>>

\* NewSignatureHeader()
FNewSignatureHeader ==
    /\ pc = "idle" /\ Len(parts) < MaxParts
    /\ hdr' = Header_SetRegion(NewHeader, HEADER_SIGNATURES)
    /\ pc' = "build"
    /\ UNCHANGED NotHdrPc

\* NewPayloadHeader()
FNewPayloadHeader ==
    /\ pc = "idle" /\ Len(parts) < MaxParts
    /\ hdr' = Header_SetRegion(NewHeader, HEADER_IMMUTABLE)
    /\ pc' = "build"
    /\ UNCHANGED NotHdrPc

FCanAdd == pc = "build" /\ Len(hdr.Tags) < MaxFrameTags

FAddString ==
    /\ FCanAdd
    /\ hdr' = Header_AddString(hdr, 1, <<97>>)
    /\ UNCHANGED NotHdr

FAddInt32 ==
    /\ FCanAdd
    /\ \E vs \in Int32s : hdr' = Header_AddInt32(hdr, 4, vs)
    /\ UNCHANGED NotHdr

\* the header is complete: it becomes the next part
FEndPart ==
    /\ pc = "build"
    /\ parts' = Append(parts, hdr)
    /\ hdr' = NewHeader
    /\ pc' = "idle"
    /\ UNCHANGED <<aux, out, wn, werr, whdr, have, rerr, rd, js, lead, lhave, marks,
                   hlist, b1, b2>>

\* WriteHeaders(b, lead, h1, ..., hn) on a new buffer b
FWriteHeaders ==
    /\ pc = "idle"
    /\ \E ps \in {<<LeadPart(lead)>> \o [i \in 1..Len(parts) |-> HdrPart(parts[i])]} :
       \E w \in {WriteHeaders(ps)} :
          /\ out' = w.bytes /\ wn' = w.n /\ werr' = w.err /\ marks' = w.marks
          /\ parts' = [i \in 1..Len(parts) |-> w.parts[i + 1].v]
    /\ pc' = "written"
    /\ UNCHANGED <<aux, hdr, whdr, have, rerr, rd, js, lead, lhave, hlist, b1, b2>>

\* r := NewReader(b); r.Lead()
FLead ==
    /\ pc = "written" /\ werr = NoErr
    /\ LET r == Reader_Lead(NewReader(out))
       IN  rd' = r.rd /\ lhave' = r.lead /\ rerr' = r.err
    /\ pc' = "lead"
    /\ UNCHANGED <<aux, hdr, out, wn, werr, whdr, have, js, lead, parts, marks, hlist,
                   b1, b2>>

\* r.Next(), once for each header written
FNext ==
    /\ pc \in {"lead", "next"} /\ rerr = NoErr /\ Len(hlist) < Len(parts)
    /\ LET r == Reader_Next(rd)
       IN  rd' = r.rd /\ hlist' = hlist \o r.hdr /\ rerr' = r.err
    /\ pc' = "next"
    /\ UNCHANGED <<aux, hdr, out, wn, werr, whdr, have, js, lead, lhave, parts, marks,
                   b1, b2>>

\* hdrEq of the tests on each header: materialize the region of the header
\* read back and serialize both headers
FHdrEq ==
    /\ pc \in {"lead", "next"} /\ rerr = NoErr /\ Len(hlist) = Len(parts)
    /\ LET w1 == [i \in 1..Len(parts) |-> Header_WriteTo(parts[i])]
           w2 == [i \in 1..Len(hlist) |-> Header_WriteTo(Header_Region(hlist[i]))]
       IN  /\ hlist' = [i \in 1..Len(hlist) |-> w2[i].h]
           /\ b1' = [i \in 1..Len(parts) |-> [bytes |-> w1[i].bytes, err |-> w1[i].err]]
           /\ b2' = [i \in 1..Len(hlist) |-> [bytes |-> w2[i].bytes, err |-> w2[i].err]]
    /\ pc' = "eq"
    /\ UNCHANGED <<aux, hdr, out, wn, werr, whdr, have, rerr, rd, js, lead, lhave, parts,
                   marks>>

NextFrame ==
    \/ FNewSignatureHeader \/ FNewPayloadHeader \/ FAddString \/ FAddInt32
    \/ FEndPart \/ FWriteHeaders \/ FLead \/ FNext \/ FHdrEq

SpecFrame == InitFrame /\ [][NextFrame]_vars

----------------------------------------------------------------------------
(* SpecParse: a hand-made header, as makeHeader of the reader tests writes *)
(* it, is handed to Reader.Next                                            *)

\* the tag-headers of the hand-made headers
CraftIds == {1, HEADER_SIGNATURES, HEADER_IMMUTABLE}

CraftTypes == {RPM_INT16_TYPE, RPM_INT32_TYPE, RPM_INT64_TYPE, RPM_STRING_TYPE,
               RPM_BIN_TYPE}

CraftOffsets == {0, 2, 4, 8, 16}

CraftCounts == {1, 2}

CraftLengths == {0, 4, 8, 16, 24}

CraftTags(ids) ==
    {MkTag(id, ty, o, c, NilData) :
        id \in ids, ty \in CraftTypes, o \in CraftOffsets, c \in CraftCounts}

\* the data bytes written after the index: n bytes "a\x00a\x00..."
CraftData(n) == [i \in 1..n |-> IF i % 2 = 1 THEN 97 ELSE 0]

\* the hand-made headers: no tag, one tag or two tags in index order, a
\* declared Length, and a data region of Length bytes or one byte short
Crafts ==
    {[Count |-> Len(ts), Length |-> l, tags |-> ts, data |-> CraftData(n)] :
        ts \in {<<>>}
               \cup {<<t>> : t \in CraftTags(CraftIds)}
               \cup {<<t, u>> : t \in CraftTags({1, HEADER_SIGNATURES}),
                                u \in CraftTags({1, HEADER_IMMUTABLE})},
        l \in CraftLengths,
        n \in CraftLengths \cup {3, 7, 15, 23}}

\* makeHeader: the preamble, the tag-headers in index order, the data
RECURSIVE CraftIndex(_, _)
CraftIndex(ts, i) ==
    IF i > Len(ts) THEN <<>> ELSE Tag_writeHeader(ts[i]) \o CraftIndex(ts, i + 1)

makeHeader(c) == Pre_write(c) \o CraftIndex(c.tags, 1) \o c.data

InitParse ==
    /\ hdr = NewHeader /\ pc = "crafted" /\ wn = 0 /\ werr = NoErr
    /\ whdr = NewHeader /\ have = <<>> /\ rerr = NoErr /\ rd = NewReader(<<>>)
    /\ js = <<>> /\ lead = NoLead /\ lhave = <<>> /\ parts = <<>> /\ marks = <<>>
    /\ hlist = <<>> /\ b1 = <<>> /\ b2 = <<>>
    /\ craft \in {c \in Crafts : Len(c.data) \in {c.Length, c.Length - 1}}
    /\ cw = [off |-> 0, w |-> <<>>] /\ clog = <<>> /\ crecs = <<>>
    /\ cr = [r |-> <<>>, off |-> 0] /\ cgot = <<>>
    /\ FilesInit
    /\ out = makeHeader(craft)

\* hdr, err := NewReader(b).Next()
Parse ==
    /\ pc = "crafted"
    /\ \E r \in {Reader_Next(NewReader(out))} :
          rd' = r.rd /\ have' = r.hdr /\ rerr' = r.err
    /\ pc' = "parsed"
    /\ UNCHANGED <<aux, hdr, out, wn, werr, whdr, js, lead, lhave, parts, marks,
                   hlist, b1, b2>>

NextParse == Parse

SpecParse == InitParse /\ [][NextParse]_vars

----------------------------------------------------------------------------
(* Properties of the header codec *)

\* tagEq of the tests: equal tag-headers and byte-equal values
TagEq(t1, t2) ==
    /\ t1.Tag = t2.Tag /\ t1.Type = t2.Type
    /\ t1.Offset = t2.Offset /\ t1.Count = t2.Count
    /\ data_WriteTo(t1.data) = data_WriteTo(t2.data)

\* the fields of the serialized form held in out
OutCount == Uint32(SubSeq(out, 9, 12))

OutLength == Uint32(SubSeq(out, 13, 16))

\* index entry k (1-based) of the serialized form
OutEntry(k) == SubSeq(out, 16 + 16 * (k - 1) + 1, 16 + 16 * k)

\* the data region of the serialized form
OutData == SubSeq(out, 16 + 16 * OutCount + 1, Len(out))

\* C1: a header built by add* calls (no region) serializes, and parsing the
\* output succeeds and yields the same tags in Offset order: same Id, Type,
\* Offset and Count, byte-equal values.
C1_HeaderRoundTrip ==
    (pc = "read" /\ whdr.region = <<>> /\ Len(whdr.Tags) > 0) =>
        /\ werr = NoErr /\ rerr = NoErr /\ have # <<>>
        /\ Len(have[1].Tags) = Len(hdr.Tags)
        /\ \A i \in 1..Len(hdr.Tags) : TagEq(hdr.Tags[i], have[1].Tags[i])

\* C2: the region value materialized when a header with N tags is serialized
\* is 16 bytes: Id = the region id, Type = BIN, Offset = 2^32 - (N+1)*16,
\* Count = 16; for N = 7 the Offset is FF FF FF 80.
C2_RegionValue ==
    (pc = "written" /\ werr = NoErr /\ whdr.region # <<>>) =>
        LET v == hdr.region[1].data.v
            N == Len(whdr.Tags)
        IN  /\ Len(v) = 16
            /\ SubSeq(v, 1, 4) = PutUint32(whdr.region[1].Tag)
            /\ Uint32(SubSeq(v, 5, 8)) = RPM_BIN_TYPE
            /\ v[9] = 255 /\ v[10] = 255
            /\ v[11] * 256 + v[12] = 65536 - (N + 1) * 16
            /\ Uint32(SubSeq(v, 13, 16)) = 16
            /\ (N = 7 => SubSeq(v, 9, 12) = <<255, 255, 255, 128>>)

C2_Witness ==
    /\ pc = "written" /\ werr = NoErr /\ whdr.region # <<>>
    /\ Len(whdr.Tags) = 7
    /\ SubSeq(hdr.region[1].data.v, 9, 12) = <<255, 255, 255, 128>>

\* C3: the serialized form of a header with a region and N tags declares
\* count N+1 and length dataEnd+16; its first index entry is the region's
\* tag-header with Offset dataEnd; the N tag-headers follow in ascending
\* Offset order; the region's 16-byte value ends the data region.
C3_RegionLayout ==
    (pc = "written" /\ werr = NoErr /\ whdr.region # <<>>) =>
        LET N == Len(whdr.Tags)
            r == whdr.region[1]
        IN  /\ OutCount = N + 1
            /\ OutLength = whdr.off + 16
            /\ OutEntry(1) = PutUint32(r.Tag) \o PutUint32(RPM_BIN_TYPE)
                             \o PutUint32(whdr.off) \o PutUint32(16)
            /\ \A k \in 1..N :
                  /\ \E i \in 1..N : OutEntry(k + 1) = Tag_writeHeader(whdr.Tags[i])
                  /\ k < N => Uint32(SubSeq(OutEntry(k + 1), 9, 12))
                                 <= Uint32(SubSeq(OutEntry(k + 2), 9, 12))
            /\ \A i \in 1..N :
                  \E k \in 1..N : OutEntry(k + 1) = Tag_writeHeader(whdr.Tags[i])
            /\ Len(OutData) = whdr.off + 16
            /\ SubSeq(OutData, whdr.off + 1, whdr.off + 16) = hdr.region[1].data.v
            /\ \A i \in 1..N :
                  whdr.Tags[i].Offset + data_Len(whdr.Tags[i].data) <= whdr.off

C3_Witness ==
    /\ pc = "written" /\ werr = NoErr /\ whdr.region # <<>>
    /\ Len(whdr.Tags) = 2 /\ whdr.off > 0
    /\ whdr.Tags[1].Offset < whdr.Tags[2].Offset

\* the bytes of the data region from offset a up to, not including, offset b
Gap(a, b) == SubSeq(OutData, a + 1, b)

\* C4: every INT16/INT32/INT64 tag of a header built by add* calls has an
\* Offset divisible by 2/4/8; in the serialized output every value lies at
\* its Offset and every run of padding between two values is zeros and
\* shorter than 8 bytes.
C4_Alignment ==
    /\ \A i \in 1..Len(hdr.Tags) :
          LET t == hdr.Tags[i]
          IN  /\ t.Type = RPM_INT16_TYPE => t.Offset % 2 = 0
              /\ t.Type = RPM_INT32_TYPE => t.Offset % 4 = 0
              /\ t.Type = RPM_INT64_TYPE => t.Offset % 8 = 0
    /\ (pc = "written" /\ werr = NoErr) =>
          \A i \in 1..Len(hdr.Tags) :
             LET t   == hdr.Tags[i]
                 end == IF i = 1 THEN 0
                        ELSE hdr.Tags[i - 1].Offset + data_Len(hdr.Tags[i - 1].data)
             IN  /\ Gap(t.Offset, t.Offset + data_Len(t.data)) = data_WriteTo(t.data)
                 /\ end <= t.Offset /\ t.Offset - end < 8
                 /\ Gap(end, t.Offset) = Zeros(t.Offset - end)

C4_Witness ==
    /\ pc = "written" /\ werr = NoErr /\ Len(hdr.Tags) = 2
    /\ hdr.Tags[2].Type = RPM_INT64_TYPE /\ hdr.Tags[2].Offset = 8
    /\ hdr.Tags[1].Offset + data_Len(hdr.Tags[1].data) = 2

\* C5: serializing a header built by add* calls never fails with DataLen:
\* the data bytes written after the index are as many as the preamble's
\* Length, and the returned count is 16 + 16*count + Length, the number of
\* bytes the sink received.
C5_Length ==
    (pc = "written" /\ Len(whdr.Tags) > 0) =>
        /\ werr = NoErr
        /\ Len(out) - (16 + 16 * OutCount) = OutLength
        /\ wn = 16 + 16 * OutCount + OutLength
        /\ wn = Len(out)
        /\ OutCount = Len(whdr.Tags) + Len(whdr.region)

C5_Witness ==
    /\ pc = "written" /\ werr = NoErr /\ whdr.region # <<>>
    /\ \E i \in 2..Len(hdr.Tags) :
          hdr.Tags[i - 1].Offset + data_Len(hdr.Tags[i - 1].data) < hdr.Tags[i].Offset
    /\ wn = Len(out)

\* C6: the tags of a header built by add* calls, taken in Offset order, have
\* strictly increasing Offsets, and dataEnd is the last tag's Offset plus the
\* length of its value.
C6_StrictOffsets ==
    LET S == SortTags(hdr.Tags)
    IN  /\ \A i \in 1..(Len(S) - 1) : S[i].Offset < S[i + 1].Offset
        /\ (pc = "build" /\ Len(S) > 0) =>
              hdr.off = S[Len(S)].Offset + data_Len(S[Len(S)].data)

\* C7: decoding the JSON encoding of a header H built by add* calls (no
\* region, or a region with a marker id) yields the same tags in the same
\* order, the same region and a byte-equal serialization; the region entry
\* of the JSON array has the greatest Offset and decode removes it from the
\* tag list.
C7_JSONRoundTrip ==
    (/\ pc = "jsoneq"
     /\ \A i \in 1..Len(whdr.region) :
           whdr.region[i].Tag \in {HEADER_IMMUTABLE, HEADER_SIGNATURES}) =>
        /\ Len(have[1].Tags) = Len(hdr.Tags)
        /\ \A i \in 1..Len(hdr.Tags) : TagEq(hdr.Tags[i], have[1].Tags[i])
        /\ Len(have[1].region) = Len(hdr.region)
        /\ \A i \in 1..Len(hdr.region) : TagEq(hdr.region[i], have[1].region[i])
        /\ b1 = b2

----------------------------------------------------------------------------
(* Properties of the lead and of the framing *)

\* C8: Lead.WriteTo writes exactly 96 bytes; reading them back gives a lead
\* equal in every field and advances the reader offset by 96 when the magic
\* is ED AB EE DB, and otherwise fails with InvalidLead, returns no lead and
\* leaves the reader offset where it was.
C8_LeadRoundTrip ==
    /\ pc \in {"written", "read"} => Len(out) = 96 /\ wn = 96 /\ werr = NoErr
    /\ (pc = "read" /\ lead.Magic = <<237, 171, 238, 219>>) =>
          rerr = NoErr /\ lhave = <<lead>> /\ rd.off = 96
    /\ (pc = "read" /\ lead.Magic # <<237, 171, 238, 219>>) =>
          rerr = errInvalidLead /\ lhave = <<>> /\ rd.off = 0

C8_Witness ==
    /\ pc = "read" /\ lead.Magic = <<237, 171, 238, 219>> /\ lhave = <<lead>>
    /\ lead.Name[66] # 0 /\ lead.ArchNum # lead.OsNum

\* the bytes part i of WriteHeaders is expected to put in the sink
PartBytes(i) ==
    IF i = 1 THEN Lead_WriteTo(lead).bytes ELSE Header_WriteTo(parts[i - 1]).bytes

C10_FrameRoundTrip ==
    /\ pc \in {"lead", "next", "eq"} => rerr = NoErr /\ lhave = <<lead>>
    /\ pc \in {"next", "eq"} =>
          /\ Len(hlist) <= Len(parts)
          /\ \A k \in 1..Len(hlist) :
                /\ Len(hlist[k].Tags) = Len(parts[k].Tags)
                /\ \A i \in 1..Len(parts[k].Tags) :
                      TagEq(parts[k].Tags[i], hlist[k].Tags[i])
                /\ Len(hlist[k].region) = 1
                /\ hlist[k].region[1].Tag = parts[k].region[1].Tag
    /\ pc = "eq" =>
          /\ b1 = b2
          /\ \A k \in 1..Len(hlist) : TagEq(parts[k].region[1], hlist[k].region[1])

----------------------------------------------------------------------------
(* Properties of Reader.Next on hand-made headers *)

ParsedOK == pc = "parsed" /\ rerr = NoErr /\ have # <<>>

SameTagHeader(t, u) ==
    t.Tag = u.Tag /\ t.Type = u.Type /\ t.Offset = u.Offset /\ t.Count = u.Count

RegionMarkers == {HEADER_IMMUTABLE, HEADER_SIGNATURES}

\* C11: after a successful parse of a header with count tag entries, the
\* region is recorded exactly when the tag with the greatest Offset has a
\* region marker Id; then the tag list holds the other count-1 tags and
\* dataEnd is the region tag's Offset; otherwise the tag list holds all count
\* tags, no region is recorded and dataEnd equals Length.
C11_RegionOnParse ==
    ParsedOK =>
        LET h == have[1]
            S == SortTags(craft.tags)
            n == craft.Count
        IN  IF n > 0 /\ S[n].Tag \in RegionMarkers
            THEN /\ Len(h.region) = 1 /\ h.region[1].Tag = S[n].Tag
                 /\ Len(h.Tags) = n - 1
                 /\ \A i \in 1..(n - 1) : SameTagHeader(h.Tags[i], S[i])
                 /\ h.off = S[n].Offset
            ELSE /\ h.region = <<>>
                 /\ Len(h.Tags) = n
                 /\ \A i \in 1..n : SameTagHeader(h.Tags[i], S[i])
                 /\ h.off = craft.Length

\* the on-wire size of one element of a Type (strings here are "a\x00")
ElemSize(ty) ==
    CASE ty = RPM_INT16_TYPE -> 2 [] ty = RPM_INT32_TYPE -> 4
      [] ty = RPM_INT64_TYPE -> 8 [] ty = RPM_STRING_TYPE -> 2 [] OTHER -> 1

\* the alignment the spec asks of a tag's Offset
TypeAlign(ty) ==
    CASE ty = RPM_INT16_TYPE -> 2 [] ty = RPM_INT32_TYPE -> 4
      [] ty = RPM_INT64_TYPE -> 8 [] OTHER -> 1

\* the data span of the i-th tag in Offset order
Span(c, i) ==
    LET S == SortTags(c.tags)
    IN  (IF i = Len(S) THEN c.Length ELSE S[i + 1].Offset) - S[i].Offset

\* some tag's Offset is not below Length, or two tags consecutive in Offset
\* order do not have increasing Offsets
BadOffsets(c) ==
    \/ \E i \in 1..Len(c.tags) : c.tags[i].Offset >= c.Length
    \/ \E i \in 1..(Len(c.tags) - 1) : Span(c, i) <= 0

\* every Offset is a multiple of the alignment of its Type
OffsetsAligned(c) ==
    \A i \in 1..Len(c.tags) : c.tags[i].Offset % TypeAlign(c.tags[i].Type) = 0

\* the whole data region is in the stream, and a value whose span is positive
\* fits in it with less than 8 bytes to spare
ValuesFit(c) ==
    LET S == SortTags(c.tags)
    IN  /\ Len(c.data) = c.Length
        /\ \A i \in 1..Len(S) :
              Span(c, i) > 0 =>
                  /\ S[i].Count * ElemSize(S[i].Type) <= Span(c, i)
                  /\ Span(c, i) - S[i].Count * ElemSize(S[i].Type) < 8

\* apart from its spans the header is well formed
OtherwiseWellFormed(c) == OffsetsAligned(c) /\ ValuesFit(c)

\* C12: parsing a header whose tags are otherwise well formed fails with
\* OffsetOOB whenever some tag's Offset is greater than or equal to Length or
\* two tags consecutive in Offset order have non-increasing Offsets, and no
\* such header is ever parsed successfully.
C12_OffsetOOB ==
    (pc = "parsed" /\ BadOffsets(craft)) =>
        /\ rerr # NoErr
        /\ OtherwiseWellFormed(craft) => rerr = errOffsetOOB

\* C13: parsing a header read from an 8-byte-aligned stream position fails
\* with BadAlign exactly when, among tags otherwise well formed, some
\* INT16/INT32/INT64 tag has an Offset not divisible by 2/4/8; a header whose
\* Offsets are all aligned for their Types is never rejected with BadAlign,
\* whatever the Offset of its first tag.
C13_BadAlign ==
    pc = "parsed" =>
        /\ OffsetsAligned(craft) => rerr # errBadAlign
        /\ (~OffsetsAligned(craft) /\ ~BadOffsets(craft) /\ ValuesFit(craft)) =>
              rerr = errBadAlign

\* the first tag in Offset order has Offset 0
FirstAtZero(c) == Len(c.tags) > 0 /\ SortTags(c.tags)[1].Offset = 0

\* the bytes of the i-th span (in Offset order) that the value does not take
Leftover(c, i) ==
    LET S == SortTags(c.tags) IN Span(c, i) - S[i].Count * ElemSize(S[i].Type)

\* every value fits in its span, with any number of bytes to spare
CountsFit(c) ==
    \A i \in 1..Len(c.tags) : Span(c, i) > 0 /\ Leftover(c, i) >= 0

\* the number of elements a parsed value holds
Elements(d) == Len(d.v)

\* C14: when a value is decoded inside a data span larger than its on-wire
\* size, a leftover of fewer than 8 bytes is discarded and the value holds
\* exactly Count elements; with a leftover of 8 bytes or more, or a stream
\* that ends before the span is consumed, the parse fails.  Stated for the
\* headers whose first tag is at Offset 0 and whose Offsets are aligned.
C14_Leftover ==
    (/\ pc = "parsed" /\ FirstAtZero(craft) /\ OffsetsAligned(craft)
     /\ CountsFit(craft)) =>
        LET n == Len(craft.tags)
        IN  /\ (/\ Len(craft.data) = craft.Length
                /\ \A i \in 1..n : Leftover(craft, i) < 8) =>
                  /\ rerr = NoErr /\ have # <<>>
                  /\ \A i \in 1..Len(have[1].Tags) :
                        Elements(have[1].Tags[i].data) = have[1].Tags[i].Count
            /\ (\E i \in 1..n : Leftover(craft, i) >= 8) => rerr # NoErr
            /\ Len(craft.data) < craft.Length => rerr # NoErr

----------------------------------------------------------------------------
(* Package scpio: the stripped cpio archive.  A Writer is [off, w], a      *)
(* Reader [r, off].                                                         *)

newcMagic == <<48, 55, 48, 55, 48, 49>>

scpioMagic == <<48, 55, 48, 55, 48, 88>>

scpio_errUnexpectedEOF == "scpio: unexpected EOF"

errBadMagic == "scpio: bad magic"

errInvalidTrailer == "scpio: invalid trailer"

errInvalidByte == "encoding/hex: invalid byte"

\* digits[d] of fmt16: "0123456789abcdef"
HexDigit(d) == IF d < 10 THEN 48 + d ELSE 87 + d

\* fmt16: the 8 lower-case hex digits of n, most significant first
fmt16(n) == [k \in 1..8 |-> HexDigit((n \div (16 ^ (8 - k))) % 16)]

\* newHeader(magic, u...)
RECURSIVE newHeaderFields(_, _)
newHeaderFields(u, i) ==
    IF i > Len(u) THEN <<>> ELSE fmt16(u[i]) \o newHeaderFields(u, i + 1)

newHeader(magic, u) == magic \o newHeaderFields(u, 1)

trailerName == <<84, 82, 65, 73, 76, 69, 82, 33, 33, 33, 0>>

trailer == newHeader(newcMagic, <<0, 0, 0, 0, 1, 0, 0, 0, 0, 0, 0, 11, 0>>)
           \o trailerName

NewWriter == [off |-> 0, w |-> <<>>]

\* Writer.Write on a sink that accepts every byte
Writer_Write(s, b) == [off |-> s.off + Len(b), w |-> s.w \o b]

\* a variant of Writer.align that never pads
Writer_align_none(s) == s

\* Writer.align: zeros up to the next multiple of 4
Writer_align(s) ==
    LET n == (s.off + 3) - ((s.off + 3) % 4)
    IN  Writer_Write(s, Zeros(n - s.off))

\* Writer.writeHeader(ino, close)
Writer_writeHeader(s, ino, close) ==
    LET a == Writer_align(s)
        h == IF close THEN Writer_Write(a, trailer)
             ELSE Writer_Write(a, newHeader(scpioMagic, <<ino>>))
    IN  Writer_align(h)

Writer_WriteHeader(s, ino) == Writer_writeHeader(s, ino, FALSE)

Writer_Close(s) == Writer_writeHeader(s, 0, TRUE)

scpio_NewReader(b) == [r |-> b, off |-> 0]

\* scpio Reader.align: discard up to the next multiple of 4
scpio_Reader_align(r) ==
    LET i == (r.off + 3) - ((r.off + 3) % 4)
        N == i - r.off
        n == IF Len(r.r) < N THEN Len(r.r) ELSE N
    IN  IF N - n # 0
        THEN [rd |-> [r EXCEPT !.r = Drop(r.r, n)], err |-> scpio_errUnexpectedEOF]
        ELSE [rd |-> [r |-> Drop(r.r, n), off |-> r.off + n], err |-> NoErr]

\* a variant of Reader.trailer that leaves the padding after the trailer unread
scpio_Reader_trailer_noalign(r) ==
    LET f == ReadFull(r.r, 8 * 12 + Len(trailerName) - 2)
    IN  IF f.err # NoErr THEN [rd |-> [r EXCEPT !.r = f.rest], err |-> f.err]
        ELSE [rd |-> [r |-> f.rest, off |-> r.off + Len(f.b)], err |-> NoErr]

\* Reader.trailer: the 105 bytes that follow the first 16 of the trailer
scpio_Reader_trailer(r) ==
    LET tl == 8 * 12 + Len(trailerName)
        f  == ReadFull(r.r, tl - 2)
        n  == Len(f.b)
    IN  IF f.err # NoErr THEN [rd |-> [r EXCEPT !.r = f.rest], err |-> f.err]
        ELSE IF SubSeq(f.b, n - Len(trailerName) + 1, n) # trailerName
        THEN [rd |-> [r EXCEPT !.r = f.rest], err |-> errInvalidTrailer]
        ELSE scpio_Reader_align([r |-> f.rest, off |-> r.off + n])

\* fromHexChar of encoding/hex: the value of a hex digit, or -1
fromHexChar(c) ==
    IF c >= 48 /\ c <= 57 THEN c - 48
    ELSE IF c >= 97 /\ c <= 102 THEN c - 87
    ELSE IF c >= 65 /\ c <= 70 THEN c - 55
    ELSE -1

\* hex.Decode of 8 characters into 4 bytes: [b, err]
hex_Decode(src) ==
    IF \E i \in 1..Len(src) : fromHexChar(src[i]) = -1
    THEN [b |-> <<>>, err |-> errInvalidByte]
    ELSE [b |-> [k \in 1..(Len(src) \div 2) |->
                    fromHexChar(src[2 * k - 1]) * 16 + fromHexChar(src[2 * k])],
          err |-> NoErr]

\* Reader.Next(sz): [rd, ino, err]
scpio_Reader_Next(r, sz) ==
    LET a == scpio_Reader_align([r EXCEPT !.off = r.off + sz])
        f == ReadFull(a.rd.r, 6 + 8 + 2)
        r1 == [r |-> f.rest, off |-> a.rd.off + Len(f.b)]
        t == scpio_Reader_trailer(r1)
        d == hex_Decode(SubSeq(f.b, 7, 14))
    IN  IF a.err # NoErr THEN [rd |-> a.rd, ino |-> 0, err |-> a.err]
        ELSE IF f.err # NoErr
        THEN [rd |-> [a.rd EXCEPT !.r = f.rest], ino |-> 0, err |-> f.err]
        ELSE IF SubSeq(f.b, 1, 6) = scpioMagic
        THEN IF d.err # NoErr THEN [rd |-> r1, ino |-> 0, err |-> d.err]
             ELSE [rd |-> r1, ino |-> Uint32(d.b), err |-> NoErr]
        ELSE IF SubSeq(f.b, 1, 6) = newcMagic
        THEN [rd |-> t.rd, ino |-> 0, err |-> t.err]
        ELSE [rd |-> r1, ino |-> 0, err |-> errBadMagic]

----------------------------------------------------------------------------
(* SpecCpio: calls on a scpio Writer, then a Reader over what it wrote *)

Inos == {0, 1, 11259375}

Chunks == {<<>>, <<65>>, <<102, 111, 111>>}

NotCpio == <<hdr, out, wn, werr, whdr, have, rerr, rd, js, lead, lhave, parts,
             marks, hlist, b1, b2, craft, pm, plog, fi, fadded, fidx, fdump,
             aux2>>

InitCpio ==
    /\ hdr = NewHeader /\ pc = "cwrite" /\ out = <<>> /\ wn = 0 /\ werr = NoErr
    /\ whdr = NewHeader /\ have = <<>> /\ rerr = NoErr /\ rd = NewReader(<<>>)
    /\ js = <<>> /\ lead = NoLead /\ lhave = <<>> /\ parts = <<>> /\ marks = <<>>
    /\ hlist = <<>> /\ b1 = <<>> /\ b2 = <<>> /\ craft = NoCraft
    /\ cw = NewWriter /\ clog = <<>> /\ crecs = <<>>
    /\ cr = scpio_NewReader(<<>>) /\ cgot = <<>> /\ FilesInit

CanWrite == pc = "cwrite" /\ Len(clog) < MaxOps

\* w.WriteHeader(ino)
CWriteHeader ==
    /\ CanWrite
    /\ \E ino \in Inos : \E s \in {Writer_WriteHeader(cw, ino)} :
          /\ cw' = s
          /\ clog' = Append(clog, [op |-> "hdr", ino |-> ino, before |-> cw.off,
                                    after |-> s.off])
          /\ crecs' = Append(crecs, [ino |-> ino, data |-> <<>>])
    /\ UNCHANGED <<NotCpio, pc, cr, cgot>>

\* io.WriteString(w, data): a raw write, part of the payload of the last record
CWrite ==
    /\ CanWrite
    /\ \E b \in Chunks : \E s \in {Writer_Write(cw, b)} :
          /\ cw' = s
          /\ clog' = Append(clog, [op |-> "write", ino |-> 0, before |-> cw.off,
                                    after |-> s.off])
          /\ crecs' = IF crecs = <<>> THEN crecs
                       ELSE [crecs EXCEPT ![Len(crecs)].data = @ \o b]
    /\ UNCHANGED <<NotCpio, pc, cr, cgot>>

\* w.Close()
CClose ==
    /\ CanWrite
    /\ \E s \in {Writer_Close(cw)} :
          /\ cw' = s
          /\ clog' = Append(clog, [op |-> "close", ino |-> 0, before |-> cw.off,
                                    after |-> s.off])
    /\ UNCHANGED <<NotCpio, pc, crecs, cr, cgot>>

\* the calls were records, each a WriteHeader followed by raw writes, then
\* one Close
RecordForm(log) ==
    /\ Len(log) > 0 /\ log[Len(log)].op = "close"
    /\ \A i \in 1..(Len(log) - 1) : log[i].op # "close"
    /\ log[1].op # "write"

\* r := NewReader(b) over the bytes the Writer emitted
CNewReader ==
    /\ pc = "cwrite" /\ RecordForm(clog)
    /\ cr' = scpio_NewReader(cw.w) /\ cgot' = <<>> /\ pc' = "cread"
    /\ UNCHANGED <<NotCpio, cw, clog, crecs>>

\* ino, err := r.Next(last), last the size of the payload read before
CNext ==
    /\ pc = "cread" /\ Len(cgot) <= Len(crecs)
    /\ cgot # <<>> => cgot[Len(cgot)].err = NoErr /\ cgot[Len(cgot)].read
    /\ \E n \in {scpio_Reader_Next(cr, IF cgot = <<>> THEN 0
                                         ELSE Len(cgot[Len(cgot)].data))} :
          /\ cr' = n.rd
          /\ cgot' = Append(cgot, [ino |-> n.ino, err |-> n.err, data |-> <<>>,
                                    read |-> Len(cgot) = Len(crecs)])
    /\ UNCHANGED <<NotCpio, pc, cw, clog, crecs>>

\* data := b.Next(len(v.data)): the caller takes the payload from the stream
CReadData ==
    /\ pc = "cread" /\ cgot # <<>>
    /\ cgot[Len(cgot)].err = NoErr /\ ~cgot[Len(cgot)].read
    /\ LET k == Len(crecs[Len(cgot)].data)
       IN  /\ cr' = [cr EXCEPT !.r = Drop(cr.r, k)]
           /\ cgot' = [cgot EXCEPT ![Len(cgot)].data = Take(cr.r, k),
                                    ![Len(cgot)].read = TRUE]
    /\ UNCHANGED <<NotCpio, pc, cw, clog, crecs>>

NextCpio == CWriteHeader \/ CWrite \/ CClose \/ CNewReader \/ CNext \/ CReadData

SpecCpio == InitCpio /\ [][NextCpio]_vars

----------------------------------------------------------------------------
(* Properties of package scpio *)

\* C15: a Reader over the output of writeHeader(inode), raw writes of the
\* payload, ..., close() that calls Next with the size of the previous
\* payload and takes each payload from the stream obtains the same inodes and
\* payloads in order, then the end of the stream with no error, and then its
\* offset is the Writer's final offset: trailer and padding are consumed.
C15_CpioRoundTrip ==
    pc = "cread" =>
        \A k \in 1..Len(cgot) :
            /\ cgot[k].err = NoErr
            /\ k <= Len(crecs) =>
                  /\ cgot[k].ino = crecs[k].ino
                  /\ cgot[k].read => cgot[k].data = crecs[k].data
            /\ k = Len(crecs) + 1 => cr.off = cw.off /\ cr.r = <<>>

C15_Witness ==
    /\ pc = "cread" /\ Len(crecs) = 2 /\ Len(cgot) = 3
    /\ crecs[1].ino = crecs[2].ino /\ Len(crecs[1].data) = 3
    /\ crecs[2].data = <<>> /\ cr.off = cw.off

\* the zero bytes of w in positions a+1 .. b
ZeroRun(w, a, b) == \A i \in (a + 1)..b : w[i] = 0

\* C16: after any sequence of writeHeader, raw write and close calls, every
\* record header and the trailer begin at an offset divisible by 4 after at
\* most 3 zero bytes, a record header is 16 bytes, the running offset is the
\* number of bytes emitted, and the offset is divisible by 4 after each
\* writeHeader and after close.
C16_CpioAlign ==
    /\ cw.off = Len(cw.w)
    /\ \A i \in 1..Len(clog) :
          LET e == clog[i]
          IN  /\ e.op = "hdr" =>
                    \E p \in e.before..(e.before + 3) :
                        /\ p % 4 = 0 /\ p + 16 <= Len(cw.w)
                        /\ ZeroRun(cw.w, e.before, p)
                        /\ SubSeq(cw.w, p + 1, p + 14) = scpioMagic \o fmt16(e.ino)
                        /\ ZeroRun(cw.w, p + 14, p + 16)
                        /\ e.after = p + 16
              /\ e.op = "close" =>
                    \E p \in e.before..(e.before + 3) :
                        /\ p % 4 = 0 /\ p + Len(trailer) <= Len(cw.w)
                        /\ ZeroRun(cw.w, e.before, p)
                        /\ SubSeq(cw.w, p + 1, p + Len(trailer)) = trailer
                        /\ e.after - (p + Len(trailer)) \in 0..3
                        /\ e.after <= Len(cw.w)
                        /\ ZeroRun(cw.w, p + Len(trailer), e.after)
                        /\ e.after % 4 = 0
              /\ e.op = "write" => e.after >= e.before

C16_Witness ==
    /\ Len(clog) = 4 /\ clog[1].op = "write" /\ clog[2].op = "hdr"
    /\ clog[2].before = 3 /\ clog[3].op = "close" /\ clog[4].op = "hdr"

\* C17: when Next reads a well-formed trailer its outcome carries no error
\* and differs from the outcome of every successfully read record, a record
\* with inode 0 included.
C17_EndOfStream ==
    (pc = "cread" /\ Len(cgot) = Len(crecs) + 1) =>
        LET t == cgot[Len(cgot)]
        IN  /\ t.err = NoErr
            /\ \A k \in 1..Len(crecs) : <<cgot[k].ino, cgot[k].err>> # <<t.ino, t.err>>

----------------------------------------------------------------------------
(* The prefix map of the file index.  A path is the sequence of its bytes;  *)
(* the Go map m is a function from directory names to indexes.              *)

\* the position of the last '/' of a path, or 0
RECURSIVE LastSlash(_, _)
LastSlash(file, i) ==
    IF i = 0 THEN 0 ELSE IF file[i] = 47 THEN i ELSE LastSlash(file, i - 1)

\* filepath.Split: the path up to and including the last '/', and the rest
filepath_Split(file) ==
    LET i == LastSlash(file, Len(file))
    IN  [d |-> SubSeq(file, 1, i), f |-> SubSeq(file, i + 1, Len(file))]

newPrefixMap == [s |-> <<>>, m |-> <<>>]

\* a variant of prefixMap.index that keeps an empty directory name
prefixMap_index_nodefault(p, file) ==
    LET sp == filepath_Split(file)
        d  == sp.d
        i  == Cardinality(DOMAIN p.m)
    IN  IF d \in DOMAIN p.m THEN [p |-> p, f |-> sp.f, i |-> p.m[d]]
        ELSE [p |-> [s |-> Append(p.s, d), m |-> (d :> i) @@ p.m],
              f |-> sp.f, i |-> i]

\* prefixMap.index(file): [p: the map afterwards, f: the base name, i: the index]
prefixMap_index(p, file) ==
    LET sp == filepath_Split(file)
        d  == IF sp.d = <<>> THEN <<47>> ELSE sp.d
        i  == Cardinality(DOMAIN p.m)
    IN  IF d \in DOMAIN p.m THEN [p |-> p, f |-> sp.f, i |-> p.m[d]]
        ELSE [p |-> [s |-> Append(p.s, d), m |-> (d :> i) @@ p.m],
              f |-> sp.f, i |-> i]

\* "/file1", "/dir1/file2", "/file3", "/dir2/file4", "nosep", "/dir1/"
P_file1 == <<47, 102, 105, 108, 101, 49>>

P_dir1file2 == <<47, 100, 105, 114, 49, 47, 102, 105, 108, 101, 50>>

P_file3 == <<47, 102, 105, 108, 101, 51>>

P_dir2file4 == <<47, 100, 105, 114, 50, 47, 102, 105, 108, 101, 52>>

P_nosep == <<110, 111, 115, 101, 112>>

P_dir1 == <<47, 100, 105, 114, 49, 47>>

Paths == {P_file1, P_dir1file2, P_file3, P_dir2file4, P_nosep, P_dir1}

NotPrefix == <<hdr, out, wn, werr, whdr, have, rerr, rd, js, lead, lhave, parts,
               marks, hlist, b1, b2, craft, cw, clog, crecs, cr, cgot,
               fi, fadded, fidx, fdump, aux2>>

InitPrefix ==
    /\ hdr = NewHeader /\ pc = "index" /\ out = <<>> /\ wn = 0 /\ werr = NoErr
    /\ whdr = NewHeader /\ have = <<>> /\ rerr = NoErr /\ rd = NewReader(<<>>)
    /\ js = <<>> /\ lead = NoLead /\ lhave = <<>> /\ parts = <<>> /\ marks = <<>>
    /\ hlist = <<>> /\ b1 = <<>> /\ b2 = <<>> /\ craft = NoCraft
    /\ cw = NewWriter /\ clog = <<>> /\ crecs = <<>>
    /\ cr = scpio_NewReader(<<>>) /\ cgot = <<>>
    /\ pm = newPrefixMap /\ plog = <<>>
    /\ fi = NoFileIndex /\ fadded = <<>>
    /\ fidx = [idx |-> NoFileIndex, err |-> "nil"]
    /\ fdump = [a |-> NoDump, b |-> NoDump]
    /\ Aux2Init

\* n, i := pm.index(file)
PIndex ==
    /\ pc = "index" /\ Len(plog) < MaxPaths
    /\ \E file \in Paths : \E r \in {prefixMap_index(pm, file)} :
          /\ pm' = r.p
          /\ plog' = Append(plog, [file |-> file, name |-> r.f, idx |-> r.i])
    /\ UNCHANGED <<NotPrefix, pc>>

NextPrefix == PIndex

SpecPrefix == InitPrefix /\ [][NextPrefix]_vars

----------------------------------------------------------------------------
(* The file index.  Strings are sequences of bytes.  NoVerify, Flags and    *)
(* the verify column are uint32 values kept as their 4 big-endian bytes,    *)
(* Size, the lsize column and rpmlsize are uint64 values kept as 8 bytes;   *)
(* Mode, MTime, the directory indexes and the 32-bit sizes are numbers.     *)

\* the tag ids of the file index, by their RPMTAG_ names
RPMTAG ==
    [SIZE |-> 1009,
     FILESIZES |-> 1028,
     FILEMODES |-> 1030,
     FILEMTIMES |-> 1034,
     FILEDIGESTS |-> 1035,
     FILELINKTOS |-> 1036,
     FILEFLAGS |-> 1037,
     FILEUSERNAME |-> 1039,
     FILEGROUPNAME |-> 1040,
     FILEVERIFYFLAGS |-> 1045,
     FILEDEVICES |-> 1095,
     FILEINODES |-> 1096,
     DIRINDEXES |-> 1116,
     BASENAMES |-> 1117,
     DIRNAMES |-> 1118,
     LONGFILESIZES |-> 5008,
     LONGSIZE |-> 5009]

typeDir == 4

typeRegular == 8

typeSymlink == 10

S_root == <<114, 111, 111, 116>>

S_dash == <<45>>

\* ^v on the bytes of an unsigned value
Not(b) == [i \in 1..Len(b) |-> 255 - b[i]]

\* the sum of two unsigned values of equal width, with carry c, wrapping
RECURSIVE AddBytes(_, _, _)
AddBytes(x, y, c) ==
    IF x = <<>> THEN <<>>
    ELSE LET n == Len(x)
             t == x[n] + y[n] + c
         IN  AddBytes(SubSeq(x, 1, n - 1), SubSeq(y, 1, n - 1), t \div 256)
               \o <<t % 256>>

\* a variant of += on uint64 that drops the carries between bytes
Add64_nocarry(x, y) == [i \in 1..Len(x) |-> (x[i] + y[i]) % 256]

\* += on uint64
Add64(x, y) == AddBytes(x, y, 0)

\* def(a, b, d): d when a equals b, else a
def(x, y, d) == IF x = y THEN d ELSE x

NewFileIndex == [NoFileIndex EXCEPT !.dirNames = newPrefixMap]

\* a File
MkFile(name, user, group, mode, linkto, mtime, digest, noverify, size, flags) ==
    [Name |-> name, User |-> user, Group |-> group, Mode |-> mode,
     LinkTo |-> linkto, MTime |-> mtime, Digest |-> digest,
     NoVerify |-> noverify, Size |-> size, Flags |-> flags]

\* FileIndex.Add
FileIndex_Add(f, r) ==
    LET x == prefixMap_index(f.dirNames, r.Name)
    IN  [f EXCEPT !.dirNames   = x.p,
                  !.dirIndexes = Append(@, x.i),
                  !.name       = Append(@, x.f),
                  !.mode       = Append(@, r.Mode),
                  !.mtime      = Append(@, r.MTime),
                  !.verify     = Append(@, Not(r.NoVerify)),
                  !.linkto     = Append(@, r.LinkTo),
                  !.digest     = Append(@, r.Digest),
                  !.flags      = Append(@, r.Flags),
                  !.user       = Append(@, def(r.User, <<>>, S_root)),
                  !.group      = Append(@, def(r.Group, <<>>, S_root)),
                  !.lsize      = Append(@, r.Size),
                  !.lsizeNil   = FALSE,
                  !.rpmlsize   = Add64(@, r.Size)]

\* a variant of FileIndex.Append that leaves out the verify flags
FileIndex_Append_noverify(f, h) ==
    IF Len(f.name) = 0 THEN h
    ELSE
    LET h1  == Header_AddStringArray(h, RPMTAG.DIRNAMES, f.dirNames.s)
        h2  == Header_AddStringArray(h1, RPMTAG.BASENAMES, f.name)
        h3  == Header_AddStringArray(h2, RPMTAG.FILEUSERNAME, f.user)
        h4  == Header_AddStringArray(h3, RPMTAG.FILEGROUPNAME, f.group)
        h5  == Header_AddStringArray(h4, RPMTAG.FILELINKTOS, f.linkto)
        h6  == Header_AddStringArray(h5, RPMTAG.FILEDIGESTS, f.digest)
        h7  == Header_AddInt32(h6, RPMTAG.DIRINDEXES, f.dirIndexes)
        h8  == Header_AddInt32(h7, RPMTAG.FILEMTIMES, f.mtime)
        h9  == Header_AddInt16(h8, RPMTAG.FILEMODES, f.mode)
        h10 == Header_AddInt32(h9, RPMTAG.FILEFLAGS, f.flags)
    IN  IF ~f.lsizeNil
        THEN Header_AddInt64(Header_AddInt64(h10, RPMTAG.LONGFILESIZES, f.lsize),
                             RPMTAG.LONGSIZE, <<f.rpmlsize>>)
        ELSE Header_AddInt32(Header_AddInt32(h10, RPMTAG.FILESIZES, f.size),
                             RPMTAG.SIZE, <<f.rpmsize>>)

\* FileIndex.Append(hdr): the header afterwards
FileIndex_Append(f, h) ==
    IF Len(f.name) = 0 THEN h
    ELSE
    LET h1  == Header_AddStringArray(h, RPMTAG.DIRNAMES, f.dirNames.s)
        h2  == Header_AddStringArray(h1, RPMTAG.BASENAMES, f.name)
        h3  == Header_AddStringArray(h2, RPMTAG.FILEUSERNAME, f.user)
        h4  == Header_AddStringArray(h3, RPMTAG.FILEGROUPNAME, f.group)
        h5  == Header_AddStringArray(h4, RPMTAG.FILELINKTOS, f.linkto)
        h6  == Header_AddStringArray(h5, RPMTAG.FILEDIGESTS, f.digest)
        h7  == Header_AddInt32(h6, RPMTAG.DIRINDEXES, f.dirIndexes)
        h8  == Header_AddInt32(h7, RPMTAG.FILEMTIMES, f.mtime)
        h9  == Header_AddInt16(h8, RPMTAG.FILEMODES, f.mode)
        h10 == Header_AddInt32(h9, RPMTAG.FILEFLAGS, f.flags)
        h11 == Header_AddInt32(h10, RPMTAG.FILEVERIFYFLAGS, f.verify)
    IN  IF ~f.lsizeNil
        THEN Header_AddInt64(Header_AddInt64(h11, RPMTAG.LONGFILESIZES, f.lsize),
                             RPMTAG.LONGSIZE, <<f.rpmlsize>>)
        ELSE Header_AddInt32(Header_AddInt32(h11, RPMTAG.FILESIZES, f.size),
                             RPMTAG.SIZE, <<f.rpmsize>>)

\* the map of FileIndexHeader's RPMTAG.DIRNAMES case: first position of each name
DirNamesMap(ss) ==
    [d \in {ss[i] : i \in 1..Len(ss)} |->
        (CHOOSE i \in 1..Len(ss) :
            ss[i] = d /\ \A j \in 1..(i - 1) : ss[j] # d) - 1]

\* one turn of FileIndexHeader's loop: [idx, err]; err "panic" is the nil
\* dereference of Tag.StringArray on a value that is not a string value
FileIndexTag(idx, v) ==
    LET str == v.data.kind = "tagString"
        u16 == v.data.kind = "tagUint16"
        u32 == v.data.kind = "tagUint32"
        u64 == v.data.kind = "tagUint64"
        strings(col) == IF str THEN [idx |-> col, err |-> NoErr]
                        ELSE [idx |-> idx, err |-> "panic"]
        typed(ok, col) == IF ok THEN [idx |-> col, err |-> NoErr]
                          ELSE [idx |-> idx, err |-> errTagType]
    IN  CASE v.Tag = RPMTAG.DIRNAMES ->
               strings([idx EXCEPT !.dirNames =
                          [s |-> v.data.v, m |-> DirNamesMap(v.data.v)]])
          [] v.Tag = RPMTAG.BASENAMES -> strings([idx EXCEPT !.name = v.data.v])
          [] v.Tag = RPMTAG.FILEUSERNAME -> strings([idx EXCEPT !.user = v.data.v])
          [] v.Tag = RPMTAG.FILEGROUPNAME -> strings([idx EXCEPT !.group = v.data.v])
          [] v.Tag = RPMTAG.FILELINKTOS -> strings([idx EXCEPT !.linkto = v.data.v])
          [] v.Tag = RPMTAG.FILEDIGESTS -> strings([idx EXCEPT !.digest = v.data.v])
          [] v.Tag = RPMTAG.DIRINDEXES ->
               typed(u32, [idx EXCEPT !.dirIndexes = v.data.v])
          [] v.Tag = RPMTAG.FILEDEVICES -> typed(u32, [idx EXCEPT !.dev = v.data.v])
          [] v.Tag = RPMTAG.FILEINODES -> typed(u32, [idx EXCEPT !.ino = v.data.v])
          [] v.Tag = RPMTAG.FILEMTIMES -> typed(u32, [idx EXCEPT !.mtime = v.data.v])
          [] v.Tag = RPMTAG.FILEFLAGS -> typed(u32, [idx EXCEPT !.flags = v.data.v])
          [] v.Tag = RPMTAG.FILEVERIFYFLAGS ->
               typed(u32, [idx EXCEPT !.verify = v.data.v])
          [] v.Tag = RPMTAG.FILEMODES -> typed(u16, [idx EXCEPT !.mode = v.data.v])
          [] v.Tag = RPMTAG.FILESIZES -> typed(u32, [idx EXCEPT !.size = v.data.v])
          [] v.Tag = RPMTAG.LONGFILESIZES ->
               typed(u64, [idx EXCEPT !.lsize = v.data.v, !.lsizeNil = FALSE])
          [] v.Tag = RPMTAG.SIZE ->
               IF u32 /\ v.data.v = <<>> THEN [idx |-> idx, err |-> "panic"]
               ELSE typed(u32, [idx EXCEPT !.rpmsize = v.data.v[1]])
          [] v.Tag = RPMTAG.LONGSIZE ->
               IF u64 /\ v.data.v = <<>> THEN [idx |-> idx, err |-> "panic"]
               ELSE typed(u64, [idx EXCEPT !.rpmlsize = v.data.v[1]])
          [] OTHER -> [idx |-> idx, err |-> NoErr]

RECURSIVE FileIndexLoop(_, _, _)
FileIndexLoop(tags, i, idx) ==
    IF i > Len(tags) THEN [idx |-> idx, err |-> NoErr]
    ELSE LET r == FileIndexTag(idx, tags[i])
         IN  IF r.err # NoErr THEN [idx |-> NoFileIndex, err |-> r.err]
             ELSE FileIndexLoop(tags, i + 1, r.idx)

\* FileIndexHeader(hdr): [idx, err]
FileIndexHeader(h) == FileIndexLoop(h.Tags, 1, NewFileIndex)

\* osMode(mode).String(): the type letter and the nine permission letters
osMode(mode) ==
    LET t    == mode \div 4096
        perm == mode % 512
        rwx  == <<114, 119, 120>>
    IN  <<(IF t = typeDir THEN 100 ELSE IF t = typeSymlink THEN 76 ELSE 45)>>
        \o [i \in 1..9 |-> IF (perm \div (2 ^ (9 - i))) % 2 = 1
                              THEN rwx[((i - 1) % 3) + 1] ELSE 45]

\* FileIndex.fsize(idx), idx counted from 1
fsize(f, i) ==
    IF Len(f.lsize) >= i THEN f.lsize[i]
    ELSE IF Len(f.size) >= i THEN <<0, 0, 0, 0>> \o PutUint32(f.size[i])
    ELSE <<0, 0, 0, 0, 0, 0, 0, 0>>

\* bit i (0 = least significant) of a uint32
Bit(m, i) == (m[4 - (i \div 8)] \div (2 ^ (i % 8))) % 2

\* hexEncode(m): "-" for none, "!" for all, else one letter per set bit
hexEncode(m) ==
    IF m = <<0, 0, 0, 0>> THEN <<45>>
    ELSE IF Not(m) = <<0, 0, 0, 0>> THEN <<33>>
    ELSE Flatten([k \in 1..32 |->
             IF Bit(m, k - 1) = 0 THEN <<>>
             ELSE <<(IF k - 1 < 10 THEN 48 + (k - 1) ELSE 55 + (k - 1))>>])

\* the elements of a path between its separators
RECURSIVE Elems(_, _)
Elems(path, cur) ==
    IF path = <<>> THEN <<cur>>
    ELSE IF Head(path) = 47 THEN <<cur>> \o Elems(Tail(path), <<>>)
    ELSE Elems(Tail(path), Append(cur, Head(path)))

\* path.Clean's walk over the elements: "" and "." dropped, ".." backs up
RECURSIVE CleanElems(_, _, _)
CleanElems(es, rooted, acc) ==
    IF es = <<>> THEN acc
    ELSE LET e == Head(es)
         IN  IF e = <<>> \/ e = <<46>> THEN CleanElems(Tail(es), rooted, acc)
             ELSE IF e = <<46, 46>>
             THEN IF acc # <<>> /\ acc[Len(acc)] # <<46, 46>>
                  THEN CleanElems(Tail(es), rooted, SubSeq(acc, 1, Len(acc) - 1))
                  ELSE IF rooted THEN CleanElems(Tail(es), rooted, acc)
                  ELSE CleanElems(Tail(es), rooted, Append(acc, e))
             ELSE CleanElems(Tail(es), rooted, Append(acc, e))

\* path.Clean
path_Clean(path) ==
    IF path = <<>> THEN <<46>>
    ELSE LET rooted == path[1] = 47
             es == CleanElems(Elems(path, <<>>), rooted, <<>>)
             body == Flatten([i \in 1..Len(es) |->
                        IF i = 1 THEN es[i] ELSE <<47>> \o es[i]])
         IN  IF rooted THEN <<47>> \o body
             ELSE IF body = <<>> THEN <<46>> ELSE body

\* path.Join of two elements
path_Join(x, y) ==
    IF x = <<>> /\ y = <<>> THEN <<>>
    ELSE IF x = <<>> THEN path_Clean(y)
    ELSE IF y = <<>> THEN path_Clean(x)
    ELSE path_Clean(x \o <<47>> \o y)

\* FileIndex.file(i), i counted from 1
FileIndex_file(f, i) ==
    path_Join(f.dirNames.s[f.dirIndexes[i] + 1], f.name[i])
      \o (IF f.linkto[i] # <<>> THEN <<32, 45, 62, 32>> \o f.linkto[i] ELSE <<>>)

\* FileIndex.dumpIndex: the nine cells of a line; the size and the time are
\* kept as the numbers whose decimal and RFC 3339 texts are printed
dumpIndex(f, i) ==
    <<hexEncode(Not(f.verify[i])), hexEncode(f.flags[i]),
      def(f.digest[i], <<>>, S_dash), osMode(f.mode[i]),
      def(f.user[i], S_root, S_dash), def(f.group[i], S_root, S_dash),
      fsize(f, i), f.mtime[i], FileIndex_file(f, i)>>

\* the columns Dump compares with the names, in its order
DumpChecked(f) ==
    <<f.verify, f.flags, f.digest, f.user, f.group, f.mtime, f.dirIndexes,
      f.linkto>>

\* FileIndex.Dump: [err, out], out the lines handed to the tab writer; an
\* index past a column that Dump does not compare is a run-time panic
Dump(f) ==
    IF Len(f.name) = 0 THEN [err |-> NoErr, out |-> <<>>]
    ELSE LET cols == DumpChecked(f)
             bad  == {i \in 1..Len(cols) : Len(cols[i]) # Len(f.name)}
         IN  IF bad # {}
             THEN [err |-> <<"rpm: invalid file index", 
                             (CHOOSE i \in bad : \A j \in bad : i <= j) - 1>>,
                   out |-> <<>>]
             ELSE IF \/ Len(f.mode) < Len(f.name)
                     \/ \E i \in 1..Len(f.name) :
                          f.dirIndexes[i] + 1 > Len(f.dirNames.s)
             THEN [err |-> "panic", out |-> <<>>]
             ELSE [err |-> NoErr,
                   out |-> [i \in 1..Len(f.name) |-> dumpIndex(f, i)]]

----------------------------------------------------------------------------
(* Building a file index, appending it to a header, reading it back from    *)
(* the header and dumping both.                                             *)

S_foo == <<102, 111, 111>>

S_bar == <<98, 97, 114>>

Zero32 == <<0, 0, 0, 0>>

\* uint64(i) for a small i
Size64(i) == <<0, 0, 0, 0, 0, 0, 0, i>>

\* {Name: "/dir/file1", User: "foo"}, Size 0
F_file1 ==
    MkFile(<<47, 100, 105, 114, 47, 102, 105, 108, 101, 49>>, S_foo, <<>>, 0,
           <<>>, 0, <<>>, Zero32, Size64(0), Zero32)

\* {Name: "/dir/file2", Group: "bar"}, Size 1
F_file2 ==
    MkFile(<<47, 100, 105, 114, 47, 102, 105, 108, 101, 50>>, <<>>, S_bar, 0,
           <<>>, 0, <<>>, Zero32, Size64(1), Zero32)

\* {Name: "/dir"}, Size 2
F_dir == MkFile(<<47, 100, 105, 114>>, <<>>, <<>>, 0, <<>>, 0, <<>>, Zero32,
                Size64(2), Zero32)

\* {Name: "/foo", LinkTo: "bar"}, Size 3
F_foo == MkFile(<<47, 102, 111, 111>>, <<>>, <<>>, 0, S_bar, 0, <<>>, Zero32,
                Size64(3), Zero32)

\* a directory "/dir/../x" of root:foo, mode 0755, with a digest, every
\* verify bit off, two flags and the largest size
F_big ==
    MkFile(<<47, 100, 105, 114, 47, 46, 46, 47, 120>>, S_root, S_foo,
           typeDir * 4096 + 493, <<>>, 1, <<97, 98>>,
           <<255, 255, 255, 255>>, <<255, 255, 255, 255, 255, 255, 255, 255>>,
           <<0, 0, 0, 17>>)

\* a symlink "nosep" -> bar, mode 0777, one verify bit off, the top flag and
\* a size of 2^32 - 1
F_link ==
    MkFile(P_nosep, <<>>, <<>>, typeSymlink * 4096 + 511, S_bar, 86400, <<>>,
           <<0, 0, 1, 0>>, <<0, 0, 0, 0, 255, 255, 255, 255>>,
           <<128, 0, 0, 0>>)

Files == {F_file1, F_file2, F_dir, F_foo, F_big, F_link}

NotFiles == <<out, wn, werr, whdr, have, rerr, rd, js, lead, lhave, parts,
              marks, hlist, b1, b2, craft, cw, clog, crecs, cr, cgot, pm, plog>>

InitFiles ==
    /\ hdr = NewHeader /\ pc = "files" /\ out = <<>> /\ wn = 0 /\ werr = NoErr
    /\ whdr = NewHeader /\ have = <<>> /\ rerr = NoErr /\ rd = NewReader(<<>>)
    /\ js = <<>> /\ lead = NoLead /\ lhave = <<>> /\ parts = <<>> /\ marks = <<>>
    /\ hlist = <<>> /\ b1 = <<>> /\ b2 = <<>> /\ craft = NoCraft
    /\ cw = NewWriter /\ clog = <<>> /\ crecs = <<>>
    /\ cr = scpio_NewReader(<<>>) /\ cgot = <<>>
    /\ pm = newPrefixMap /\ plog = <<>>
    /\ fi = NewFileIndex /\ fadded = <<>>
    /\ fidx = [idx |-> NoFileIndex, err |-> NoErr]
    /\ fdump = [a |-> NoDump, b |-> NoDump]
    /\ Aux2Init

\* fi.Add(v)
FIAdd ==
    /\ pc = "files" /\ Len(fadded) < MaxFiles
    /\ \E r \in Files : \E g \in {FileIndex_Add(fi, r)} :
          /\ fi' = g
          /\ fadded' = Append(fadded, r)
    /\ UNCHANGED <<NotFiles, aux2, hdr, pc, fidx, fdump>>

\* hdr := new(Header); fi.Append(hdr)
FIAppend ==
    /\ pc = "files"
    /\ \E h \in {FileIndex_Append(fi, NewHeader)} : hdr' = h
    /\ pc' = "appended"
    /\ UNCHANGED <<NotFiles, aux2, fi, fadded, fidx, fdump>>

\* idx, err := FileIndexHeader(hdr)
FIHeader ==
    /\ pc = "appended"
    /\ \E r \in {FileIndexHeader(hdr)} : fidx' = r
    /\ pc' = "ingested"
    /\ UNCHANGED <<NotFiles, aux2, hdr, fi, fadded, fdump>>

\* diff(t, idx, fi), reached when FileIndexHeader returned no error
FIDiff ==
    /\ pc = "ingested" /\ fidx.err = NoErr
    /\ \E x \in {Dump(fidx.idx)} : \E y \in {Dump(fi)} :
          fdump' = [a |-> x, b |-> y]
    /\ pc' = "dumped"
    /\ UNCHANGED <<NotFiles, aux2, hdr, fi, fadded, fidx>>

NextFiles == FIAdd \/ FIAppend \/ FIHeader \/ FIDiff

SpecFiles == InitFiles /\ [][NextFiles]_vars

----------------------------------------------------------------------------
(* Properties of the prefix map.                                            *)

\* the positions of the separators of a path
Seps(file) == {i \in 1..Len(file) : file[i] = 47}

\* the directory of a path: up to and including its last '/', or "/"
DirOf(file) ==
    IF Seps(file) = {} THEN <<47>>
    ELSE SubSeq(file, 1, CHOOSE i \in Seps(file) : \A j \in Seps(file) : j <= i)

\* the distinct directories of the first n indexed paths
DirsBefore(n) == {DirOf(plog[j].file) : j \in 1..n}

\* the first call that indexed the directory of call i
FirstSeen(i) ==
    CHOOSE j \in 1..i : /\ DirOf(plog[j].file) = DirOf(plog[i].file)
                        /\ \A k \in 1..(j - 1) :
                              DirOf(plog[k].file) # DirOf(plog[i].file)

TestPaths == <<P_file1, P_dir1file2, P_file3, P_dir2file4, P_nosep>>

\* C18: paths indexed into a new prefix map are split into their directory
\* (up to and including the last '/', or "/" without a separator) and the
\* rest; two paths get the same index iff their directories are equal; the
\* k-th distinct directory in first-seen order gets index k-1; the paths
\* /file1, /dir1/file2, /file3, /dir2/file4, nosep get 0,1,0,2,0 and the
\* directory names "/", "/dir1/", "/dir2/".
C18_PrefixIndex ==
    /\ \A i \in 1..Len(plog) :
          /\ DirOf(plog[i].file) \o plog[i].name
                = (IF Seps(plog[i].file) = {} THEN <<47>> ELSE <<>>)
                  \o plog[i].file
          /\ plog[i].idx = Cardinality(DirsBefore(FirstSeen(i) - 1))
          /\ plog[i].idx + 1 \in 1..Len(pm.s)
          /\ pm.s[plog[i].idx + 1] = DirOf(plog[i].file)
    /\ \A i, j \in 1..Len(plog) :
          plog[i].idx = plog[j].idx <=> DirOf(plog[i].file) = DirOf(plog[j].file)
    /\ Len(pm.s) = Cardinality(DirsBefore(Len(plog)))
    /\ [i \in 1..Len(plog) |-> plog[i].file] = TestPaths
          => /\ [i \in 1..Len(plog) |-> plog[i].idx] = <<0, 1, 0, 2, 0>>
             /\ pm.s = <<<<47>>, P_dir1, <<47, 100, 105, 114, 50, 47>>>>

\* the five paths of the example have been indexed
C18_Witness ==
    /\ [i \in 1..Len(plog) |-> plog[i].file] = TestPaths
    /\ [i \in 1..Len(plog) |-> plog[i].idx] = <<0, 1, 0, 2, 0>>

----------------------------------------------------------------------------
(* Reading a file index from a header whose tags are not the ones Append    *)
(* wrote: a header as a package may hold it, with a tag missing, a tag of   *)
(* another shape or length, or a tag the file index does not know.          *)

MaxEdits == 1

\* the file lists behind the headers that are then changed
Bases == {<<>>, <<F_file1>>, <<F_dir, F_foo>>, <<F_file1, F_big>>}

RECURSIVE AddAll(_, _)
AddAll(f, rs) == IF rs = <<>> THEN f ELSE AddAll(FileIndex_Add(f, Head(rs)), Tail(rs))

\* an id the file index does not know (RPMTAG_NAME)
OtherIds == {1000}

\* n elements of the number v as a column of the id holds them
Elems32(id, n, v) ==
    [i \in 1..n |-> IF id \in {RPMTAG.FILEFLAGS, RPMTAG.FILEVERIFYFLAGS}
                    THEN PutUint32(v) ELSE v]

\* the values a tag of the id may carry: each shape with 0, 1 or 2 elements
Shapes(id) ==
    UNION {{[type |-> RPM_STRING_ARRAY_TYPE,
             data |-> StringData([i \in 1..n |-> <<97 + v>>], 0)],
            [type |-> RPM_INT16_TYPE, data |-> Uint16Data([i \in 1..n |-> v])],
            [type |-> RPM_INT32_TYPE, data |-> Uint32Data(Elems32(id, n, v))],
            [type |-> RPM_INT64_TYPE,
             data |-> Uint64Data([i \in 1..n |-> Size64(v)])],
            [type |-> RPM_BIN_TYPE, data |-> BytesData([i \in 1..n |-> v], n)]}
           : n \in 0..2, v \in {0, 7}}

InitIngest ==
    /\ pc = "built" /\ out = <<>> /\ wn = 0 /\ werr = NoErr
    /\ whdr = NewHeader /\ have = <<>> /\ rerr = NoErr /\ rd = NewReader(<<>>)
    /\ js = <<>> /\ lead = NoLead /\ lhave = <<>> /\ parts = <<>> /\ marks = <<>>
    /\ hlist = <<>> /\ b1 = <<>> /\ b2 = <<>> /\ craft = NoCraft
    /\ cw = NewWriter /\ clog = <<>> /\ crecs = <<>>
    /\ cr = scpio_NewReader(<<>>) /\ cgot = <<>>
    /\ pm = newPrefixMap /\ plog = <<>>
    /\ fadded \in Bases
    /\ fi = AddAll(NewFileIndex, fadded)
    /\ hdr = FileIndex_Append(fi, NewHeader)
    /\ fidx = [idx |-> NoFileIndex, err |-> NoErr]
    /\ fdump = [a |-> NoDump, b |-> NoDump]
    /\ hedits = <<>> /\ tmake = NoMake

\* the header lacks one of the tags
IDrop ==
    /\ pc = "built" /\ Len(hedits) < MaxEdits
    /\ \E i \in 1..Len(hdr.Tags) :
          /\ hdr' = [hdr EXCEPT !.Tags =
                        SubSeq(@, 1, i - 1) \o SubSeq(@, i + 1, Len(@))]
          /\ hedits' = Append(hedits, [op |-> "drop", id |-> hdr.Tags[i].Tag])
    /\ UNCHANGED <<NotFiles, tmake, pc, fi, fadded, fidx, fdump>>

\* one of the tags carries another value
IReplace ==
    /\ pc = "built" /\ Len(hedits) < MaxEdits
    /\ \E i \in 1..Len(hdr.Tags) : \E sh \in Shapes(hdr.Tags[i].Tag) :
          /\ IF sh.data.kind # hdr.Tags[i].data.kind THEN TRUE
             ELSE sh.data.v # hdr.Tags[i].data.v
          /\ hdr' = [hdr EXCEPT !.Tags[i].Type = sh.type,
                                !.Tags[i].Count = Elements(sh.data),
                                !.Tags[i].data = sh.data]
          /\ hedits' = Append(hedits, [op |-> "replace", id |-> hdr.Tags[i].Tag])
    /\ UNCHANGED <<NotFiles, tmake, pc, fi, fadded, fidx, fdump>>

\* the header holds a tag more: a file-index tag it lacks, or another tag
IAdd ==
    /\ pc = "built" /\ Len(hedits) < MaxEdits
    /\ \E id \in OtherIds \cup {RPMTAG.SIZE, RPMTAG.FILESIZES, RPMTAG.BASENAMES} :
       \E sh \in Shapes(id) :
          /\ hdr' = [hdr EXCEPT !.Tags = Append(@,
                        MkTag(id, sh.type, 0, Elements(sh.data), sh.data))]
          /\ hedits' = Append(hedits, [op |-> "add", id |-> id])
    /\ UNCHANGED <<NotFiles, tmake, pc, fi, fadded, fidx, fdump>>

\* fi, err := rpm.FileIndexHeader(v)
IHeader ==
    /\ pc = "built"
    /\ \E r \in {FileIndexHeader(hdr)} : fidx' = r
    /\ pc' = "ingested"
    /\ UNCHANGED <<NotFiles, tmake, hdr, fi, fadded, fdump, hedits>>

\* fi.Dump(w), reached when FileIndexHeader returned an index
IDump ==
    /\ pc = "ingested" /\ fidx.err = NoErr
    /\ \E x \in {Dump(fidx.idx)} : fdump' = [a |-> x, b |-> NoDump]
    /\ pc' = "dumped"
    /\ UNCHANGED <<NotFiles, tmake, hdr, fi, fadded, fidx, hedits>>

NextIngest == IDrop \/ IReplace \/ IAdd \/ IHeader \/ IDump

SpecIngest == InitIngest /\ [][NextIngest]_vars

----------------------------------------------------------------------------
(* Tag.make on its own: any Type, Count and span.                           *)

MaxType == 10

MaxCount == 4

MaxSpan == 9

NotMake == <<hdr, out, wn, werr, whdr, have, rerr, rd, js, lead, lhave, parts,
             marks, hlist, b1, b2, craft, cw, clog, crecs, cr, cgot, pm, plog,
             fi, fadded, fidx, fdump, hedits>>

InitMake ==
    /\ hdr = NewHeader /\ pc = "make" /\ out = <<>> /\ wn = 0 /\ werr = NoErr
    /\ whdr = NewHeader /\ have = <<>> /\ rerr = NoErr /\ rd = NewReader(<<>>)
    /\ js = <<>> /\ lead = NoLead /\ lhave = <<>> /\ parts = <<>> /\ marks = <<>>
    /\ hlist = <<>> /\ b1 = <<>> /\ b2 = <<>> /\ craft = NoCraft
    /\ cw = NewWriter /\ clog = <<>> /\ crecs = <<>>
    /\ cr = scpio_NewReader(<<>>) /\ cgot = <<>>
    /\ pm = newPrefixMap /\ plog = <<>>
    /\ fi = NoFileIndex /\ fadded = <<>>
    /\ fidx = [idx |-> NoFileIndex, err |-> NoErr]
    /\ fdump = [a |-> NoDump, b |-> NoDump]
    /\ hedits = <<>>
    /\ \E T \in 0..MaxType, c \in 0..MaxCount, a \in {0, 3}, s \in 0..MaxSpan :
          tmake = [NoMake EXCEPT !.t = [Type |-> T, Count |-> c],
                              !.a = a, !.b = a + s]

\* err := v.make(v.Offset, nt)
Make ==
    /\ pc = "make" /\ ~tmake.done
    /\ \E r \in {Tag_make(tmake.t, tmake.a, tmake.b)} :
          tmake' = [tmake EXCEPT !.done = TRUE, !.data = r.data, !.err = r.err]
    /\ pc' = "made"
    /\ UNCHANGED NotMake

NextMake == Make

SpecMake == InitMake /\ [][NextMake]_vars

----------------------------------------------------------------------------
(* Serializing a header decoded from JSON, whose tags carry any Offset.     *)

MaxDocTags == 2

DocOffsets == {0, 1, 4, 8, 12, 16}

\* the JSON of a tag at the Offset: an INT32 value of one element or a
\* byte-blob of one byte
DocTag(id, type, o) ==
    [Tag |-> FormatUint(id), Type |-> FormatUint(type), Offset |-> FormatUint(o),
     Count |-> FormatUint(1),
     Data |-> IF type = RPM_INT32_TYPE THEN JSONArray(<<FormatUint(7)>>)
              ELSE JSONBytes(<<1>>)]

\* the documents: MaxDocTags tags or fewer, the i-th with the id i
Docs ==
    UNION {[1..n -> {RPM_INT32_TYPE, RPM_BIN_TYPE} \X DocOffsets]
           : n \in 1..MaxDocTags}

InitDecoded ==
    /\ hdr = NewHeader /\ pc = "marshalled" /\ out = <<>> /\ wn = 0
    /\ werr = NoErr /\ whdr = NewHeader /\ have = <<>> /\ rerr = NoErr
    /\ rd = NewReader(<<>>) /\ lead = NoLead /\ lhave = <<>> /\ parts = <<>>
    /\ marks = <<>> /\ hlist = <<>> /\ b1 = <<>> /\ b2 = <<>> /\ AuxInit
    /\ \E d \in Docs :
          js = [i \in 1..Len(d) |-> DocTag(i, d[i][1], d[i][2])]

\* have.WriteTo(b) on the header decoded
DWriteTo ==
    /\ pc = "json"
    /\ \E w \in {Header_WriteTo(have[1])} :
          /\ have' = <<w.h>> /\ out' = w.bytes /\ wn' = w.n /\ werr' = w.err
    /\ whdr' = have[1]
    /\ pc' = "written"
    /\ UNCHANGED <<aux, hdr, rerr, rd, js, lead, lhave, parts, marks, hlist, b1, b2>>

NextDecoded == UnmarshalJSON \/ DWriteTo

SpecDecoded == InitDecoded /\ [][NextDecoded]_vars

----------------------------------------------------------------------------
(* Properties of the file index.                                            *)

\* the per-file columns that Add fills
AddColumns ==
    <<fi.name, fi.user, fi.group, fi.linkto, fi.digest, fi.dirIndexes, fi.mode,
      fi.mtime, fi.flags, fi.verify, fi.lsize>>

\* the k-th 16-bit limb (1 = most significant) of a uint64
Limb(b, k) == b[2 * k - 1] * 256 + b[2 * k]

\* the sum of the k-th limbs of the first n sizes
RECURSIVE LimbSum(_, _)
LimbSum(k, n) == IF n = 0 THEN 0 ELSE Limb(fi.lsize[n], k) + LimbSum(k, n - 1)

\* the k-th limb of the sum with the carries of the limbs below it
RECURSIVE LimbTotal(_)
LimbTotal(k) ==
    LimbSum(k, Len(fi.lsize)) + (IF k = 4 THEN 0 ELSE LimbTotal(k + 1) \div 65536)

\* C19: after any sequence of Add calls on a new FileIndex every per-file
\* column has as many entries as files were added; every directory index is
\* a position of the directory names and names the file's directory; the
\* directory names have no duplicates; the stored total size is the sum of
\* the per-file sizes modulo 2^64.
C19_FileIndexInv ==
    /\ \A c \in 1..Len(AddColumns) : Len(AddColumns[c]) = Len(fadded)
    /\ \A i \in 1..Len(fi.dirIndexes) :
          /\ fi.dirIndexes[i] + 1 \in 1..Len(fi.dirNames.s)
          /\ i <= Len(fadded)
               => fi.dirNames.s[fi.dirIndexes[i] + 1] = DirOf(fadded[i].Name)
    /\ \A i, j \in 1..Len(fi.dirNames.s) :
          fi.dirNames.s[i] = fi.dirNames.s[j] => i = j
    /\ \A k \in 1..4 : Limb(fi.rpmlsize, k) = LimbTotal(k) % 65536

\* three files or more in two directories or more, their sizes summing past 2^64
C19_Witness ==
    /\ Len(fadded) >= 3
    /\ Len(fi.dirNames.s) >= 2
    /\ \E i, j \in 1..Len(fadded) : fadded[i] = F_big /\ fadded[j] = F_foo
    /\ LimbTotal(1) >= 65536

\* C20: for any files added to a new FileIndex, appending it to an empty
\* header and reading a FileIndex from that header succeeds, and the dump of
\* the index read is equal to the dump of the index built; with no file
\* added the header gets no tag and both dumps are empty.
C20_FileIndexRoundTrip ==
    /\ pc \in {"ingested", "dumped"} => fidx.err = NoErr
    /\ pc = "dumped" =>
          /\ fdump.a.err = NoErr /\ fdump.b.err = NoErr
          /\ fdump.a.out = fdump.b.out
          /\ Len(fdump.b.out) = Len(fadded)
    /\ pc # "files" /\ fadded = <<>> =>
          /\ hdr.Tags = <<>>
          /\ fdump.a.out = <<>> /\ fdump.b.out = <<>>

\* both dumps made of an index of three files or more, the largest among them
C20_Witness ==
    /\ pc = "dumped"
    /\ Len(fadded) >= 3
    /\ \E i \in 1..Len(fadded) : fadded[i] = F_big
    /\ Len(fdump.a.out) = Len(fadded)
    /\ Len(hdr.Tags) = 13

\* the tags of the appended header that carry the id
TagsOf(id) == {i \in 1..Len(hdr.Tags) : hdr.Tags[i].Tag = id}

\* a size that does not fit in a uint32
IsLong(sz) == SubSeq(sz, 1, 4) # <<0, 0, 0, 0>>

\* C21: a non-empty FileIndex built by Add calls and appended to a header
\* emits exactly one size pair: LONGFILESIZES with LONGSIZE, as uint64
\* values, if some file size does not fit in a uint32, and otherwise
\* FILESIZES with SIZE, as uint32 values.
C21_SizePair ==
    (pc # "files" /\ fadded # <<>>) =>
        LET long == \E i \in 1..Len(fadded) : IsLong(fadded[i].Size)
            one(id, kind) ==
                /\ Cardinality(TagsOf(id)) = 1
                /\ \A i \in TagsOf(id) : hdr.Tags[i].data.kind = kind
        IN  IF long
            THEN /\ one(RPMTAG.LONGFILESIZES, "tagUint64")
                 /\ one(RPMTAG.LONGSIZE, "tagUint64")
                 /\ TagsOf(RPMTAG.FILESIZES) = {} /\ TagsOf(RPMTAG.SIZE) = {}
            ELSE /\ one(RPMTAG.FILESIZES, "tagUint32")
                 /\ one(RPMTAG.SIZE, "tagUint32")
                 /\ TagsOf(RPMTAG.LONGFILESIZES) = {}
                 /\ TagsOf(RPMTAG.LONGSIZE) = {}

----------------------------------------------------------------------------
(* Properties of reading a file index from a header.                        *)

StringIds ==
    {RPMTAG.DIRNAMES, RPMTAG.BASENAMES, RPMTAG.FILEUSERNAME,
     RPMTAG.FILEGROUPNAME, RPMTAG.FILELINKTOS, RPMTAG.FILEDIGESTS}

Uint32Ids ==
    {RPMTAG.DIRINDEXES, RPMTAG.FILEDEVICES, RPMTAG.FILEINODES,
     RPMTAG.FILEMTIMES, RPMTAG.FILEFLAGS, RPMTAG.FILEVERIFYFLAGS,
     RPMTAG.FILESIZES, RPMTAG.SIZE}

Uint64Ids == {RPMTAG.LONGFILESIZES, RPMTAG.LONGSIZE}

Recognised == StringIds \cup Uint32Ids \cup Uint64Ids \cup {RPMTAG.FILEMODES}

\* the shape the id requires
Required(id) ==
    IF id \in StringIds THEN "tagString"
    ELSE IF id \in Uint32Ids THEN "tagUint32"
    ELSE IF id \in Uint64Ids THEN "tagUint64"
    ELSE "tagUint16"

\* the tags of a recognised id whose value has another shape
WrongShape(h) ==
    {i \in 1..Len(h.Tags) :
        /\ h.Tags[i].Tag \in Recognised
        /\ h.Tags[i].data.kind # Required(h.Tags[i].Tag)}

\* the header without the tags of unrecognised ids
KnownOnly(h) ==
    [h EXCEPT !.Tags = SelectSeq(@, LAMBDA t : t.Tag \in Recognised)]

\* C22: reading a FileIndex from a header returns the TagType error and no
\* index whenever a tag of a recognised file-index id carries a value of
\* another shape than the id requires; it does not crash on such a header;
\* tags of unrecognised ids are ignored.
C22_TagType ==
    pc \in {"ingested", "dumped"} =>
        /\ WrongShape(hdr) # {} =>
              fidx.err = errTagType /\ fidx.idx.name = <<>>
                /\ fidx.idx.dirNames.s = <<>>
        /\ fidx.err = FileIndexHeader(KnownOnly(hdr)).err

\* C28: for a FileIndex read from a header, whose columns come from
\* independent tags and may be absent or of any length and whose directory
\* indexes may hold any value, Dump either writes one line per base name or
\* returns an 'invalid file index' error; it never reads past the end of a
\* per-file column, the modes included, or of the directory names.
C28_DumpSafe ==
    pc = "dumped" =>
        /\ fdump.a.err # "panic"
        /\ \/ fdump.a.err = NoErr /\ Len(fdump.a.out) = Len(fidx.idx.name)
           \/ /\ fdump.a.err # NoErr /\ fdump.a.err # "panic"
              /\ fdump.a.err[1] = "rpm: invalid file index"

----------------------------------------------------------------------------
(* Properties of Tag.make.                                                  *)

\* the bytes one element of the Type takes at least
Width(T) ==
    CASE T = RPM_INT16_TYPE -> 2
      [] T = RPM_INT32_TYPE -> 4
      [] T = RPM_INT64_TYPE -> 8
      [] OTHER -> 1

\* the value shape the Type fixes
ShapeOf(T) ==
    CASE T = RPM_INT16_TYPE -> "tagUint16"
      [] T = RPM_INT32_TYPE -> "tagUint32"
      [] T = RPM_INT64_TYPE -> "tagUint64"
      [] T \in {RPM_STRING_TYPE, RPM_I18NSTRING_TYPE, RPM_STRING_ARRAY_TYPE} ->
           "tagString"
      [] OTHER -> "tagBytes"

\* C23: for a tag-header of Type T and Count c over a span of s bytes the
\* making of the value fails with TagType iff T is not one of 1..9, fails
\* with TagSize whenever c elements cannot fit in s bytes, and otherwise
\* gives the one value shape T fixes, holding exactly c elements.
C23_TagMake ==
    tmake.done =>
        LET T == tmake.t.Type
            c == tmake.t.Count
            s == tmake.b - tmake.a
        IN  /\ tmake.err = errTagType <=> T \notin 1..9
            /\ (T \in 1..9 /\ c * Width(T) > s) => tmake.err = errTagSize
            /\ (T \in 1..9 /\ c * Width(T) <= s) =>
                  /\ tmake.err = NoErr
                  /\ tmake.data.kind = ShapeOf(T)
                  /\ IF tmake.data.kind = "tagBytes" THEN tmake.data.count = c
                     ELSE Len(tmake.data.v) = c

\* an INT32 value of two elements made in a span of 8 bytes
C23_Witness ==
    /\ tmake.done /\ tmake.t.Type = RPM_INT32_TYPE /\ tmake.t.Count = 2
    /\ tmake.b - tmake.a = 8 /\ tmake.err = NoErr /\ Len(tmake.data.v) = 2

----------------------------------------------------------------------------
(* Properties of Header.WriteTo on headers of any kind.                     *)

\* C24: serializing a header without tags fails with NoTags and writes
\* nothing to the sink, with a region set or without; serializing a header
\* with a tag or more never fails with NoTags.
C24_NoTags ==
    pc = "written" =>
        /\ whdr.Tags = <<>> => werr = errNoTags /\ out = <<>> /\ wn = 0
        /\ whdr.Tags # <<>> => werr # errNoTags

\* a header with a region and no tag has been serialized
C24_Witness ==
    /\ pc = "written" /\ whdr.Tags = <<>> /\ whdr.region # <<>>
    /\ werr = errNoTags /\ out = <<>>

\* the data cursor before tag i of the tags in ascending Offset order, when
\* every tag before it lies at or after the cursor it met; else -1
RECURSIVE CursorAt(_, _)
CursorAt(ts, i) ==
    IF i = 1 THEN 0
    ELSE LET c == CursorAt(ts, i - 1)
         IN  IF c < 0 \/ ts[i - 1].Offset < c THEN -1
             ELSE ts[i - 1].Offset + data_Len(ts[i - 1].data)

\* the data region of the bytes written: what follows the preamble and the
\* tag-headers
DataOut(h) == Drop(out, 16 + tagSize * (Len(h.Tags) + Len(h.region)))

\* C25: for a header with any tag Offsets, as one decoded from JSON,
\* serialize walks the tags in ascending Offset order; for a tag whose
\* Offset is below the data cursor it fails with InvalidOffset; before any
\* other tag it emits only zero bytes, fewer than 8, to reach the Offset: a
\* padding run of 8 bytes or more is never emitted.
C25_Padding ==
    (pc = "written" /\ whdr.Tags # <<>>) =>
        LET ts == SortTags(whdr.Tags)
        IN  \A i \in 1..Len(ts) :
               LET c == CursorAt(ts, i)
               IN  /\ (c >= 0 /\ ts[i].Offset < c) => werr = errInvalidOffset
                   /\ (c >= 0 /\ ts[i].Offset >= c
                         /\ Len(DataOut(whdr)) >= ts[i].Offset) =>
                         /\ ts[i].Offset - c < 8
                         /\ \A k \in (c + 1)..ts[i].Offset : DataOut(whdr)[k] = 0

\* C26: serializing a header leaves it as it was: the same tags in the same
\* order with the same Offsets, Counts and values, byte-blobs included, and
\* the same dataEnd; a second serialization gives the same bytes and result.
C26_WriteKeeps ==
    pc = "written" =>
        /\ hdr.Tags = whdr.Tags
        /\ hdr.off = whdr.off
        /\ LET w == Header_WriteTo(hdr)
           IN  w.bytes = out /\ w.err = werr /\ w.n = wn

\* a header of two tags at different Offsets, a byte-blob among them, with a
\* region, has been serialized
C26_Witness ==
    /\ pc = "written" /\ werr = NoErr /\ whdr.region # <<>>
    /\ Len(whdr.Tags) >= 2
    /\ whdr.Tags[1].Offset < whdr.Tags[2].Offset
    /\ \E i \in 1..Len(whdr.Tags) :
          whdr.Tags[i].data.kind = "tagBytes" /\ whdr.Tags[i].data.v # <<>>

\* the bytes Reader.Next has taken from the stream it was given
Consumed == Len(out) - Len(rd.r)

\* the size of the header on the stream: preamble, index, data region
HeaderSpan(c) == tagSize + tagSize * c.Count + c.Length

\* C27: after every successful Next the Reader has consumed the alignment
\* padding (none at the start of a stream) plus the whole header, 16 +
\* 16*count + Length bytes, and its running offset has advanced by the same
\* amount, also for count 0 with a non-zero Length and for a smallest tag
\* Offset greater than 0.
C27_NextConsumes ==
    (pc = "parsed" /\ rerr = NoErr) =>
        /\ Consumed = HeaderSpan(craft)
        /\ rd.off = HeaderSpan(craft)
====
